---------------------------- MODULE Spec2Model ----------------------------
(***************************************************************************)
(* A model of the mycelium function runtime and trigger dispatcher:        *)
(*   - RuntimeService (internal/function/service.go): the invoke handler,  *)
(*     the plugin cache and the plugin loaders;                            *)
(*   - NATSRegistry: the key-value + object-store function registry;       *)
(*   - NATSStore / namespaceIndex (internal/trigger): the trigger index    *)
(*     and its change watcher;                                             *)
(*   - Watcher.handleMessage and the triggerd event handler.               *)
(* Each component has its own next-state relation over the shared state.   *)
(***************************************************************************)
EXTENDS Integers, Sequences, FiniteSets, TLC

VARIABLES
    \* ---- RuntimeService ----
    functions,      \* MemoryRegistry.functions: name -> meta type ("" = absent)
    plugins,        \* rs.plugins: name -> handle id (0 = no entry)
    handles,        \* every Plugin value ever built, in order: handle id -> name
    spawned,        \* name -> number of plugin subprocesses started for it
    registryCalls,  \* name -> number of registry.GetFunction calls made by getPlugin
    loaderCalls,    \* name -> number of loadPlugin calls made by getPlugin
    pc,             \* request -> position of its handler goroutine
    request,        \* request -> the decoded envelope
    plugin,         \* request -> handler local `plugin` (handle id)
    meta,           \* request -> handler local `meta` (type read from the registry)
    replies,        \* request -> replies sent on the request's correlation
    metrics,        \* request -> metric calls made while handling it
    crashed,        \* the service process died of an unrecovered panic
    mu,             \* rs.mu: the requests holding it for reading, and the writer
    expired,        \* request -> the caller's deadline has passed
    lifecycle,      \* "new" (constructed), "started" or "stopped"
    dead,           \* handle ids whose plugin process has exited or was closed
    \* ---- NATSRegistry ----
    kv,             \* "functions" bucket: name -> encoded metadata (<<>> = absent)
    objectStore,    \* "function-binaries" bucket: name -> binary ("" = absent)
    rpc,            \* client -> position inside StoreFunction / DeleteFunction
    rarg,           \* client -> arguments of the call in progress
    rret,           \* client -> result of the last finished call
    ops,            \* number of registry calls started
    \* ---- NATSStore, Watcher, triggerd ----
    bucket,         \* the triggers KV bucket: its revisions, oldest first
    updates,        \* watcher.Updates(): change notifications not yet handled
    index,          \* s.index: exactMatches, patternMatches, triggers
    phase,          \* triggerd start-up: "new", "loaded" (LoadAll done), "watching"
    processed,      \* the change notification the watch goroutine handled last
    msg,            \* the last stream delivery and what handleMessage did with it
    dcrashed,       \* triggerd died of an unrecovered panic
    storeOps,       \* number of SaveTrigger / DeleteTrigger calls made
    lookup,         \* the last store.GetTriggers call: its namespace and result
    mt,             \* the last MatchTrigger call: trigger, event and result
    call,           \* the last direct call of a function: name, arguments, result
    ex,             \* executions of one ExampleFunction: request -> position, event, result
    mreg,           \* a MemoryRegistry under direct calls: its map, the calls made, the last result
    st,             \* NATSStore: who holds s.mu, and what the last LoadAll returned
    ld              \* PluginManager.LoadPlugin calls: request -> position, scratch dir, subprocess, result

svcVars == <<functions, plugins, handles, spawned, registryCalls, loaderCalls,
             pc, request, plugin, meta, replies, metrics, crashed, mu,
             expired, lifecycle, dead>>
regVars == <<kv, objectStore, rpc, rarg, rret, ops>>
trigVars == <<bucket, updates, index, phase, processed, msg, dcrashed, storeOps>>
matchVars == <<lookup, mt, call, ex, mreg, st, ld>>
vars == <<svcVars, regVars, trigVars, matchVars>>
otherThanService == <<regVars, trigVars, matchVars>>
otherThanRegistry == <<svcVars, trigVars, matchVars>>
otherThanDispatch == <<svcVars, regVars, matchVars>>

---------------------------------------------------------------------------
(* Bounds *)
MaxEvents == 4
NumRequests == 2
NumClients == 2
MaxOps == 3
MaxStoreOps == 3

---------------------------------------------------------------------------
(* RuntimeService *)

Requests == 1..NumRequests

\* Function names that requests carry; "" is an envelope without functionName.
FunctionNames == {"example", "error-function", "ext", "wat", "nope", ""}

\* The registry content the service runs against: the entries of
\* CreateExampleRuntimeService and TestErrorPropagation, one external plugin
\* and one entry of an unknown type.
InitialFunctions ==
    [n \in FunctionNames |->
        CASE n = "example" -> "builtin"
          [] n = "error-function" -> "builtin"
          [] n = "ext" -> "hashicorp-plugin"
          [] n = "wat" -> "wat"
          [] OTHER -> ""]

\* MemoryRegistry.GetFunction: the entry, or an error when the name is absent.
MemGetFunction(name) ==
    IF functions[name] = "" THEN [err |-> TRUE, type |-> ""]
    ELSE [err |-> FALSE, type |-> functions[name]]

\* Outcomes of PluginManager.LoadPlugin: the scratch directory or file cannot be
\* written (no subprocess yet), client.Client() or Dispense fails (subprocess
\* started, then killed), the wrapper is returned, or the unchecked type
\* assertion raw.(Function) panics.
ExternalOutcomes == {"io_error", "connect_error", "ok", "panic"}

\* PluginManager.LoadPlugin's result for an outcome: whether a handle is
\* returned, the subprocesses started, the error.
LoadPlugin(out) ==
    CASE out = "io_error" ->
            [res |-> "error", spawn |-> 0, loader |-> "PluginManager.LoadPlugin",
             plugin |-> "nil", err |-> "failed to write plugin binary"]
      [] out = "connect_error" ->
            [res |-> "error", spawn |-> 1, loader |-> "PluginManager.LoadPlugin",
             plugin |-> "nil", err |-> "failed to create RPC client"]
      [] out = "ok" ->
            [res |-> "ok", spawn |-> 1, loader |-> "PluginManager.LoadPlugin",
             plugin |-> "pluginWrapper", err |-> "nil"]
      [] OTHER ->
            [res |-> "panic", spawn |-> 1, loader |-> "PluginManager.LoadPlugin",
             plugin |-> "nil", err |-> "nil"]

\* loadPlugin with every type but builtin handed to the plugin manager.
loadPluginDefaultExternal(name, type, out) ==
    IF type = "builtin"
    THEN IF name = "example"
         THEN [res |-> "ok", spawn |-> 0, loader |-> "builtin",
               plugin |-> "ExamplePlugin", err |-> "nil"]
         ELSE [res |-> "error", spawn |-> 0, loader |-> "builtin",
               plugin |-> "nil",
               err |-> "built-in function " \o name \o " not found"]
    ELSE LoadPlugin(out)

\* loadPlugin's result for a metadata (name, type); out is the outcome of the
\* external loader when the type selects it.
loadPlugin(name, type, out) ==
    CASE type = "builtin" ->
            IF name = "example"
            THEN [res |-> "ok", spawn |-> 0, loader |-> "builtin",
                  plugin |-> "ExamplePlugin", err |-> "nil"]
            ELSE [res |-> "error", spawn |-> 0, loader |-> "builtin",
                  plugin |-> "nil",
                  err |-> "built-in function " \o name \o " not found"]
      [] type = "hashicorp-plugin" -> LoadPlugin(out)
      [] OTHER ->
            [res |-> "error", spawn |-> 0, loader |-> "none", plugin |-> "nil",
             err |-> "unsupported plugin type: " \o type]

\* req.Respond / req.Error: the reply goes out on the request's correlation
\* unless Stop has closed the connection (the send error is only logged).
Respond(r, payload) ==
    replies' = IF lifecycle = "stopped" THEN replies
               ELSE [replies EXCEPT ![r] = Append(@, payload)]

\* respondWithError: one req.Error carrying the error type.
respondWithError(r, errorType) == Respond(r, errorType)

\* A request arrives on function.invoke and its handler goroutine starts.
Deliver(r) ==
    /\ ~crashed
    /\ lifecycle # "stopped"
    /\ pc[r] = "idle"
    /\ \E ok \in BOOLEAN, n \in FunctionNames, e \in {"nil", "event"} :
          request' = [request EXCEPT ![r] =
                         [ok |-> ok, FunctionName |-> IF ok THEN n ELSE "",
                          Event |-> IF ok THEN e ELSE "nil", At |-> lifecycle]]
    /\ pc' = [pc EXCEPT ![r] = "unmarshal"]
    /\ UNCHANGED <<dead, expired, lifecycle, functions, plugins, handles, spawned, registryCalls,
                   loaderCalls, plugin, meta, replies, metrics, crashed, mu>>

\* json.Unmarshal of the envelope.
Unmarshal(r) ==
    /\ ~crashed
    /\ pc[r] = "unmarshal"
    /\ IF request[r].ok
       THEN /\ pc' = [pc EXCEPT ![r] = "getPlugin"]
            /\ UNCHANGED replies
       ELSE /\ respondWithError(r, "invalid_request")
            /\ pc' = [pc EXCEPT ![r] = "done"]
    /\ UNCHANGED <<dead, expired, lifecycle, functions, plugins, handles, spawned, registryCalls,
                   loaderCalls, request, plugin, meta, metrics, crashed, mu>>

\* getPlugin, rs.mu.RLock(): it waits while a writer holds the mutex.
GetPluginRLock(r) ==
    /\ ~crashed
    /\ pc[r] = "getPlugin"
    /\ mu.writer = 0
    /\ mu' = [mu EXCEPT !.readers = @ \cup {r}]
    /\ pc' = [pc EXCEPT ![r] = "lookup"]
    /\ UNCHANGED <<dead, expired, lifecycle, functions, plugins, handles, spawned,
                   registryCalls, loaderCalls, request, plugin, meta, replies,
                   metrics, crashed>>

\* The lookup with the read lock kept after it (an unlock deferred to the
\* end of getPlugin instead of placed right after the map read).
GetPluginLookupDeferredUnlock(r) ==
    /\ ~crashed
    /\ pc[r] = "lookup"
    /\ LET name == request[r].FunctionName IN
       IF plugins[name] # 0
       THEN /\ plugin' = [plugin EXCEPT ![r] = plugins[name]]
            /\ pc' = [pc EXCEPT ![r] = "Execute"]
       ELSE /\ pc' = [pc EXCEPT ![r] = "GetFunction"]
            /\ UNCHANGED plugin
    /\ UNCHANGED <<dead, expired, lifecycle, functions, plugins, handles, spawned, registryCalls,
                   loaderCalls, request, meta, replies, metrics, crashed, mu>>

\* getPlugin, the cache lookup and rs.mu.RUnlock().
GetPluginLookup(r) ==
    /\ ~crashed
    /\ pc[r] = "lookup"
    /\ LET name == request[r].FunctionName IN
       IF plugins[name] # 0
       THEN /\ plugin' = [plugin EXCEPT ![r] = plugins[name]]
            /\ pc' = [pc EXCEPT ![r] = "Execute"]
       ELSE /\ pc' = [pc EXCEPT ![r] = "GetFunction"]
            /\ UNCHANGED plugin
    /\ mu' = [mu EXCEPT !.readers = @ \ {r}]
    /\ UNCHANGED <<dead, expired, lifecycle, functions, plugins, handles, spawned, registryCalls,
                   loaderCalls, request, meta, replies, metrics, crashed>>

\* getPlugin, rs.registry.GetFunction(name); on error the handler replies.
GetPluginRegistry(r) ==
    /\ ~crashed
    /\ pc[r] = "GetFunction"
    /\ LET name == request[r].FunctionName
           got == MemGetFunction(name) IN
       /\ registryCalls' = [registryCalls EXCEPT ![name] = @ + 1]
       /\ IF got.err
          THEN /\ respondWithError(r, "plugin_not_found")
               /\ pc' = [pc EXCEPT ![r] = "done"]
               /\ UNCHANGED meta
          ELSE /\ meta' = [meta EXCEPT ![r] = got.type]
               /\ pc' = [pc EXCEPT ![r] = "loadPlugin"]
               /\ UNCHANGED replies
    /\ UNCHANGED <<dead, expired, lifecycle, functions, plugins, handles, spawned, loaderCalls,
                   request, plugin, metrics, crashed, mu>>

\* The load with the cache written before the error check: a failed load
\* leaves a nil plugin (-1) under the name.
GetPluginLoadCachingFailure(r) ==
    /\ ~crashed
    /\ pc[r] = "loadPlugin"
    /\ \E out \in ExternalOutcomes :
        LET name == request[r].FunctionName
            got == loadPlugin(name, meta[r], out) IN
        /\ loaderCalls' = [loaderCalls EXCEPT ![name] = @ + 1]
        /\ spawned' = [spawned EXCEPT ![name] = @ + got.spawn]
        /\ CASE got.res = "ok" ->
                  /\ handles' = Append(handles, name)
                  /\ plugin' = [plugin EXCEPT ![r] = Len(handles) + 1]
                  /\ pc' = [pc EXCEPT ![r] = "store"]
                  /\ UNCHANGED <<replies, crashed, plugins>>
             [] got.res = "error" ->
                  /\ plugins' = [plugins EXCEPT ![name] = -1]
                  /\ respondWithError(r, "plugin_not_found")
                  /\ pc' = [pc EXCEPT ![r] = "done"]
                  /\ UNCHANGED <<handles, plugin, crashed>>
             [] OTHER ->
                  /\ crashed' = TRUE
                  /\ pc' = [pc EXCEPT ![r] = "panic"]
                  /\ UNCHANGED <<handles, plugin, replies, plugins>>
    /\ UNCHANGED <<dead, expired, lifecycle, functions, registryCalls, request,
                   meta, metrics, mu>>

\* getPlugin, rs.loadPlugin(meta, binary); on error the handler replies.
GetPluginLoad(r) ==
    /\ ~crashed
    /\ pc[r] = "loadPlugin"
    /\ \E out \in ExternalOutcomes :
        LET name == request[r].FunctionName
            got == loadPlugin(name, meta[r], out) IN
        /\ loaderCalls' = [loaderCalls EXCEPT ![name] = @ + 1]
        /\ spawned' = [spawned EXCEPT ![name] = @ + got.spawn]
        /\ CASE got.res = "ok" ->
                  /\ handles' = Append(handles, name)
                  /\ plugin' = [plugin EXCEPT ![r] = Len(handles) + 1]
                  /\ pc' = [pc EXCEPT ![r] = "store"]
                  /\ UNCHANGED <<replies, crashed>>
             [] got.res = "error" ->
                  /\ respondWithError(r, "plugin_not_found")
                  /\ pc' = [pc EXCEPT ![r] = "done"]
                  /\ UNCHANGED <<handles, plugin, crashed>>
             [] OTHER ->
                  /\ crashed' = TRUE
                  /\ pc' = [pc EXCEPT ![r] = "panic"]
                  /\ UNCHANGED <<handles, plugin, replies>>
    /\ UNCHANGED <<dead, expired, lifecycle, functions, plugins, registryCalls, request,
                   meta, metrics, mu>>

\* getPlugin, rs.mu.Lock(): it waits while anyone holds the mutex.
GetPluginLock(r) ==
    /\ ~crashed
    /\ pc[r] = "store"
    /\ mu.writer = 0 /\ mu.readers = {}
    /\ mu' = [mu EXCEPT !.writer = r]
    /\ pc' = [pc EXCEPT ![r] = "insert"]
    /\ UNCHANGED <<dead, expired, lifecycle, functions, plugins, handles, spawned,
                   registryCalls, loaderCalls, request, plugin, meta, replies,
                   metrics, crashed>>

\* getPlugin, the insert into rs.plugins and rs.mu.Unlock().
GetPluginStore(r) ==
    /\ ~crashed
    /\ pc[r] = "insert"
    /\ plugins' = [plugins EXCEPT ![request[r].FunctionName] = plugin[r]]
    /\ mu' = [mu EXCEPT !.writer = 0]
    /\ pc' = [pc EXCEPT ![r] = "Execute"]
    /\ UNCHANGED <<dead, expired, lifecycle, functions, handles, spawned, registryCalls, loaderCalls,
                   request, plugin, meta, replies, metrics, crashed>>

\* Outcomes of plugin.Function().Execute for the handle's function.
\* ExampleFunction reads event.ID() first: a nil event panics; otherwise it
\* returns one event. An external function returns events or an error.
ExecuteOutcomes(name, event) ==
    IF name = "example"
    THEN IF event = "nil" THEN {"panic"} ELSE {"ok"}
    ELSE {"ok", "error", "bad_events"}

\* Execute, the metrics and the reply (service.go 269-302).
Execute(r) ==
    /\ ~crashed
    /\ pc[r] = "Execute"
    /\ \E out \in (IF plugin[r] \in dead THEN {"error"}
                   ELSE ExecuteOutcomes(handles[plugin[r]], request[r].Event)) :
        CASE out = "panic" ->
                /\ crashed' = TRUE
                /\ pc' = [pc EXCEPT ![r] = "panic"]
                /\ UNCHANGED <<replies, metrics>>
          [] out = "error" ->
                /\ metrics' = [metrics EXCEPT ![r] =
                                  Append(@, <<"error", "execution_error">>)]
                /\ respondWithError(r, "execution_error")
                /\ pc' = [pc EXCEPT ![r] = "done"]
                /\ UNCHANGED crashed
          [] out = "bad_events" ->
                \* json.Marshal of the returned events fails
                /\ metrics' = [metrics EXCEPT ![r] =
                                  Append(@, <<"invocation", "success">>)]
                /\ respondWithError(r, "response_error")
                /\ pc' = [pc EXCEPT ![r] = "done"]
                /\ UNCHANGED crashed
          [] OTHER ->
                /\ metrics' = [metrics EXCEPT ![r] =
                                  Append(@, <<"invocation", "success">>)]
                /\ Respond(r, "success")
                /\ pc' = [pc EXCEPT ![r] = "done"]
                /\ UNCHANGED crashed
    /\ UNCHANGED <<dead, expired, lifecycle, functions, plugins, handles, spawned, registryCalls,
                   loaderCalls, request, plugin, meta, mu>>

\* The steps of request r's handler after its delivery.
HandlerStep(r) ==
    \/ Unmarshal(r) \/ GetPluginRLock(r) \/ GetPluginLookup(r)
    \/ GetPluginRegistry(r) \/ GetPluginLoad(r) \/ GetPluginLock(r)
    \/ GetPluginStore(r) \/ Execute(r)

\* The caller's deadline passes while the request is being handled. The
\* envelope carries no deadline and Execute runs under context.Background().
Expire(r) ==
    /\ pc[r] \notin {"idle", "done", "panic"}
    /\ ~expired[r]
    /\ expired' = [expired EXCEPT ![r] = TRUE]
    /\ UNCHANGED <<dead, lifecycle, functions, plugins, handles, spawned, registryCalls,
                   loaderCalls, pc, request, plugin, meta, replies, metrics,
                   crashed, mu>>

\* The subprocess behind an external plugin's handle exits; calls on the
\* handle fail from then on.
PluginCrash(h) ==
    /\ ~crashed
    /\ functions[handles[h]] = "hashicorp-plugin"
    /\ h \notin dead
    /\ dead' = dead \cup {h}
    /\ UNCHANGED <<expired, lifecycle, functions, plugins, handles, spawned,
                   registryCalls, loaderCalls, pc, request, plugin, meta,
                   replies, metrics, crashed, mu>>

\* RuntimeService.Start: it logs; the service and the endpoint were
\* registered by NewRuntimeService.
Start ==
    /\ lifecycle = "new"
    /\ lifecycle' = "started"
    /\ UNCHANGED <<dead, expired, functions, plugins, handles, spawned, registryCalls,
                   loaderCalls, pc, request, plugin, meta, replies, metrics,
                   crashed, mu>>

\* RuntimeService.Stop: rs.service.Stop() and rs.natsConn.Close().
Stop ==
    /\ lifecycle \in {"new", "started"}
    /\ lifecycle' = "stopped"
    /\ UNCHANGED <<dead, expired, functions, plugins, handles, spawned, registryCalls,
                   loaderCalls, pc, request, plugin, meta, replies, metrics,
                   crashed, mu>>

NextService ==
    \/ \E r \in Requests : Deliver(r) /\ UNCHANGED otherThanService
    \/ \E r \in Requests : Unmarshal(r) /\ UNCHANGED otherThanService
    \/ \E r \in Requests : GetPluginRLock(r) /\ UNCHANGED otherThanService
    \/ \E r \in Requests : GetPluginLookup(r) /\ UNCHANGED otherThanService
    \/ \E r \in Requests : GetPluginRegistry(r) /\ UNCHANGED otherThanService
    \/ \E r \in Requests : GetPluginLoad(r) /\ UNCHANGED otherThanService
    \/ \E r \in Requests : GetPluginLock(r) /\ UNCHANGED otherThanService
    \/ \E r \in Requests : GetPluginStore(r) /\ UNCHANGED otherThanService
    \/ \E r \in Requests : Execute(r) /\ UNCHANGED otherThanService

\* The service with callers' deadlines passing.
NextDeadline ==
    \/ \E r \in Requests : Deliver(r) /\ UNCHANGED otherThanService
    \/ \E r \in Requests : HandlerStep(r) /\ UNCHANGED otherThanService
    \/ \E r \in Requests : Expire(r) /\ UNCHANGED otherThanService

\* The service with plugin subprocesses exiting on their own.
NextCrash ==
    \/ \E r \in Requests : Deliver(r) /\ UNCHANGED otherThanService
    \/ \E r \in Requests : HandlerStep(r) /\ UNCHANGED otherThanService
    \/ \E h \in 1..Len(handles) : PluginCrash(h) /\ UNCHANGED otherThanService

\* The service with Start and Stop called by its owner.
NextLifecycle ==
    \/ \E r \in Requests : Deliver(r) /\ UNCHANGED otherThanService
    \/ \E r \in Requests : HandlerStep(r) /\ UNCHANGED otherThanService
    \/ Start /\ UNCHANGED otherThanService
    \/ Stop /\ UNCHANGED otherThanService

---------------------------------------------------------------------------
(* Trigger index: internal/trigger/types.go and the matcher *)

NoTrigger == [ID |-> ""]

\* The trigger definitions that triggerctl adds in this model.
TriggerPool == {
    [ID |-> "a", Namespaces |-> <<"prod">>, ObjectType |-> "", EventType |-> "",
     Criteria |-> "", Enabled |-> TRUE, Action |-> "notify"],
    [ID |-> "a", Namespaces |-> <<"dev", "prod.*">>, ObjectType |-> "", EventType |-> "",
     Criteria |-> "", Enabled |-> FALSE, Action |-> "notify"],
    [ID |-> "b", Namespaces |-> <<"prod.*", "*">>, ObjectType |-> "User",
     EventType |-> "user.updated", Criteria |-> "", Enabled |-> TRUE, Action |-> "audit"],
    [ID |-> "c", Namespaces |-> <<>>, ObjectType |-> "User", EventType |-> "user.updated",
     Criteria |-> "event.payload.after.role == \"admin\"", Enabled |-> TRUE,
     Action |-> "alert"],
    [ID |-> "d", Namespaces |-> <<"prod">>, ObjectType |-> "", EventType |-> "",
     Criteria |-> "event.event_type ==", Enabled |-> TRUE, Action |-> "example"],
    [ID |-> "d", Namespaces |-> <<"dev">>, ObjectType |-> "", EventType |-> "",
     Criteria |-> "event.event_id", Enabled |-> TRUE, Action |-> "example"] }

TriggerIDs == {t.ID : t \in TriggerPool}
Patterns == {"prod", "dev", "prod.*", "*"}

newNamespaceIndex ==
    [exactMatches |-> [p \in Patterns |-> <<>>],
     patternMatches |-> [p \in Patterns |-> <<>>],
     triggers |-> [i \in TriggerIDs |-> NoTrigger]]

\* strings.Contains(s, c) for a one-character c.
RECURSIVE Contains(_, _)
Contains(s, c) ==
    IF s = "" THEN FALSE
    ELSE IF Head(s) = c THEN TRUE
    ELSE Contains(Tail(s), c)

\* strings.ReplaceAll(pattern, "*", ".*")
RECURSIVE ReplaceAllStar(_)
ReplaceAllStar(s) ==
    IF s = "" THEN ""
    ELSE IF Head(s) = "*" THEN ".*" \o ReplaceAllStar(Tail(s))
    ELSE Head(s) \o ReplaceAllStar(Tail(s))

\* regexp.MatchString("^" + re + "$", s) for the expressions ReplaceAllStar
\* yields from letters, "." and "*": "." is any character, "x*" any run of x.
RECURSIVE RegexpMatch(_, _)
RegexpMatch(re, s) ==
    IF re = "" THEN s = ""
    ELSE IF Len(re) >= 2 /\ SubSeq(re, 2, 2) = "*"
    THEN \/ RegexpMatch(SubSeq(re, 3, Len(re)), s)
         \/ /\ s # ""
            /\ (Head(re) = "." \/ Head(re) = Head(s))
            /\ RegexpMatch(re, Tail(s))
    ELSE /\ s # ""
         /\ (Head(re) = "." \/ Head(re) = Head(s))
         /\ RegexpMatch(Tail(re), Tail(s))

\* isNamespaceMatch(trigger, eventNamespace), on the trigger's pattern list.
isNamespaceMatch(namespaces, eventNamespace) ==
    \/ Len(namespaces) = 0
    \/ \E i \in 1..Len(namespaces) :
          RegexpMatch(ReplaceAllStar(namespaces[i]), eventNamespace)

\* addTrigger's loop over trigger.Namespaces, from position i.
RECURSIVE addPatterns(_, _, _)
addPatterns(idx, t, i) ==
    IF i > Len(t.Namespaces) THEN idx
    ELSE LET pattern == t.Namespaces[i] IN
         addPatterns(
             IF Contains(pattern, "*")
             THEN [idx EXCEPT !.patternMatches[pattern] = Append(@, t.ID)]
             ELSE [idx EXCEPT !.exactMatches[pattern] = Append(@, t.ID)],
             t, i + 1)

addTrigger(idx, t) ==
    LET withT == [idx EXCEPT !.triggers[t.ID] = t] IN
    IF Len(t.Namespaces) = 0
    THEN [withT EXCEPT !.patternMatches["*"] = Append(@, t.ID)]
    ELSE addPatterns(withT, t, 1)

\* A bucket's list with every occurrence of triggerID taken out.
RECURSIVE without(_, _)
without(ids, triggerID) ==
    IF ids = <<>> THEN <<>>
    ELSE IF Head(ids) = triggerID THEN without(Tail(ids), triggerID)
    ELSE <<Head(ids)>> \o without(Tail(ids), triggerID)

removeTrigger(idx, triggerID) ==
    IF triggerID \notin DOMAIN idx.triggers \/ idx.triggers[triggerID] = NoTrigger
    THEN idx
    ELSE [exactMatches |-> [p \in Patterns |-> without(idx.exactMatches[p], triggerID)],
          patternMatches |-> [p \in Patterns |-> without(idx.patternMatches[p], triggerID)],
          triggers |-> [idx.triggers EXCEPT ![triggerID] = NoTrigger]]

\* The orders in which `range idx.patternMatches` may visit the map's keys.
PatternKeys(idx) == {p \in Patterns : idx.patternMatches[p] # <<>>}
KeyOrders(keys) ==
    {o \in [1..Cardinality(keys) -> keys] :
        \A i, j \in 1..Cardinality(keys) : i # j => o[i] # o[j]}

\* getTriggers: the ids gathered from the buckets, in visiting order.
RECURSIVE patternIDs(_, _, _, _)
patternIDs(idx, namespace, order, i) ==
    IF i > Len(order) THEN <<>>
    ELSE (IF order[i] = "*" \/ isNamespaceMatch(<<order[i]>>, namespace)
          THEN idx.patternMatches[order[i]] ELSE <<>>)
         \o patternIDs(idx, namespace, order, i + 1)

\* getTriggers: ids to triggers, first occurrence of each id only.
RECURSIVE dedupe(_, _, _)
dedupe(idx, ids, seen) ==
    IF ids = <<>> THEN <<>>
    ELSE IF Head(ids) \notin seen /\ idx.triggers[Head(ids)] # NoTrigger
    THEN <<idx.triggers[Head(ids)]>> \o dedupe(idx, Tail(ids), seen \cup {Head(ids)})
    ELSE dedupe(idx, Tail(ids), seen)

getTriggers(idx, namespace, order) ==
    dedupe(idx,
           (IF namespace \in Patterns THEN idx.exactMatches[namespace] ELSE <<>>)
               \o patternIDs(idx, namespace, order, 1),
           {})

---------------------------------------------------------------------------
(* Matcher: MatchTrigger, evaluateTriggerCriteria, FindMatchingTriggers *)

\* Events as the watcher hands them to the handler. Context is the optional
\* *Context of event.Event and NATSMeta the optional *NATSMeta, which
\* handleMessage sets from the delivery; After is payload.after's role field,
\* "nil" when there is no after state.
Events == {
    [EventID |-> "e1", Namespace |-> "prod", EventType |-> "user.updated",
     ObjectType |-> "User", Context |-> "set", NATSMeta |-> "set", After |-> "admin"],
    [EventID |-> "e2", Namespace |-> "dev", EventType |-> "user.updated",
     ObjectType |-> "User", Context |-> "set", NATSMeta |-> "set", After |-> "nil"],
    [EventID |-> "e3", Namespace |-> "prod.eu", EventType |-> "config.updated",
     ObjectType |-> "Config", Context |-> "nil", NATSMeta |-> "set", After |-> "user"] }
NoEvent ==
    [EventID |-> "", Namespace |-> "", EventType |-> "", ObjectType |-> "",
     Context |-> "nil", NATSMeta |-> "nil", After |-> "nil"]

\* expr.Compile and expr.Run of a criteria against the event map: a boolean,
\* or the way the evaluation fails.
exprEval(criteria, ev) ==
    CASE criteria = "event.event_type ==" -> "compile_error"
      [] criteria = "event.event_id" -> "not_boolean"
      [] criteria = "event.payload.after.role == \"admin\"" ->
            IF ev.After = "nil" THEN "run_error"
            ELSE IF ev.After = "admin" THEN "true" ELSE "false"
      [] OTHER -> "compile_error"

\* evaluateTriggerCriteria: building the event map reads
\* event.Context.RequestID and event.NATSMeta.Stream, a nil pointer
\* dereference when the event carries no context or no delivery metadata.
evaluateTriggerCriteria(ev, criteria) ==
    IF criteria = "" THEN "true"
    ELSE IF ev.Context = "nil" \/ ev.NATSMeta = "nil" THEN "panic"
    ELSE IF exprEval(criteria, ev) \in {"true", "false"} THEN exprEval(criteria, ev)
    ELSE "error"

\* MatchTrigger without the test of trigger.Enabled.
MatchTriggerIgnoringEnabled(t, ev) ==
    IF t.Criteria = ""
    THEN IF /\ (t.EventType = "" \/ t.EventType = ev.EventType)
            /\ isNamespaceMatch(t.Namespaces, ev.Namespace)
            /\ (t.ObjectType = "" \/ t.ObjectType = ev.ObjectType)
         THEN "true" ELSE "false"
    ELSE evaluateTriggerCriteria(ev, t.Criteria)

\* MatchTrigger: "true", "false", "error" (the returned err) or "panic".
MatchTrigger(t, ev) ==
    IF ~t.Enabled THEN "false"
    ELSE IF t.Criteria = ""
    THEN IF /\ (t.EventType = "" \/ t.EventType = ev.EventType)
            /\ isNamespaceMatch(t.Namespaces, ev.Namespace)
            /\ (t.ObjectType = "" \/ t.ObjectType = ev.ObjectType)
         THEN "true" ELSE "false"
    ELSE evaluateTriggerCriteria(ev, t.Criteria)

\* FindMatchingTriggers' loop over the candidates: the first error ends it
\* with (nil, err), a panic unwinds it.
RECURSIVE matchLoop(_, _, _)
matchLoop(cands, ev, acc) ==
    IF cands = <<>> THEN [res |-> "ok", matched |-> acc]
    ELSE LET m == MatchTrigger(Head(cands), ev) IN
         CASE m = "error" -> [res |-> "error", matched |-> <<>>]
           [] m = "panic" -> [res |-> "panic", matched |-> <<>>]
           [] m = "true" -> matchLoop(Tail(cands), ev, Append(acc, Head(cands)))
           [] OTHER -> matchLoop(Tail(cands), ev, acc)

FindMatchingTriggers(cands, ev) ==
    IF Len(cands) = 0 THEN [res |-> "ok", matched |-> <<>>]
    ELSE matchLoop(cands, ev, <<>>)

\* The triggerd event handler (main.go 51-68): the error of
\* FindMatchingTriggers is returned; matched triggers are logged, their
\* actions are not executed.
handler(cands, ev) ==
    LET fm == FindMatchingTriggers(cands, ev) IN
    [result |-> IF fm.res = "ok" THEN "nil" ELSE fm.res,
     matched |-> fm.matched,
     invoked |-> <<>>]

---------------------------------------------------------------------------
(* NATSStore (trigger store) and Watcher *)

\* json.Marshal / json.Unmarshal of a Trigger.
MarshalTrigger(t) == <<"json", t>>
UnmarshalTrigger(v) ==
    IF Len(v) = 2 /\ v[1] = "json" THEN [err |-> FALSE, trigger |-> v[2]]
    ELSE [err |-> TRUE, trigger |-> NoTrigger]

\* fmt.Sprintf("%s.%s", namespace, name)
TriggerKey(namespace, name) == namespace \o "." \o name

\* The latest revision of every key of the bucket, oldest first: what
\* kv.WatchAll replays when the watch starts.
LastRevisions(revs) ==
    SelectSeq([i \in 1..Len(revs) |-> [revs[i] EXCEPT !.last =
                   \A j \in (i+1)..Len(revs) : revs[j].key # revs[i].key]],
              LAMBDA r : r.last)

\* kv.Keys(): the keys whose latest revision is a put, with that revision.
LiveKeys(revs) == SelectSeq(LastRevisions(revs), LAMBDA r : r.op = "put")

\* LoadAll's loop from key i on: kv.Get of key failAt fails (0: none does);
\* a failed Get or Unmarshal returns with the index as built so far.
RECURSIVE loadLoop(_, _, _, _)
loadLoop(idx, keys, i, failAt) ==
    IF i > Len(keys) THEN [index |-> idx, err |-> "nil"]
    ELSE IF i = failAt THEN [index |-> idx, err |-> "failed to get key"]
    ELSE IF UnmarshalTrigger(keys[i].value).err
    THEN [index |-> idx, err |-> "failed to unmarshal trigger"]
    ELSE loadLoop(addTrigger(idx, UnmarshalTrigger(keys[i].value).trigger),
                  keys, i + 1, failAt)

\* main: store.LoadAll(ctx)
LoadAll ==
    /\ phase = "new"
    /\ index' = loadLoop(newNamespaceIndex, LiveKeys(bucket), 1, 0).index
    /\ phase' = "loaded"
    /\ UNCHANGED <<bucket, updates, processed, msg, dcrashed, storeOps>>

\* main: go store.Watch(ctx), then watcher.Start
Watch ==
    /\ phase = "loaded"
    /\ updates' = LastRevisions(bucket)
    /\ phase' = "watching"
    /\ UNCHANGED <<bucket, index, processed, msg, dcrashed, storeOps>>

\* NATSStore.GetAllTriggers: every trigger of the by-id map.
GetAllTriggers(idx) ==
    {idx.triggers[i] : i \in {j \in DOMAIN idx.triggers : idx.triggers[j] # NoTrigger}}

\* triggerctl add: store.SaveTrigger(ctx, "default", t.ID, &t)
SaveTrigger(namespace, name, t) ==
    /\ storeOps < MaxStoreOps
    /\ storeOps' = storeOps + 1
    /\ LET rev == [op |-> "put", key |-> TriggerKey(namespace, name),
                   value |-> MarshalTrigger(t), last |-> TRUE] IN
       /\ bucket' = Append(bucket, rev)
       /\ updates' = IF phase = "watching" THEN Append(updates, rev) ELSE updates
    /\ UNCHANGED <<index, phase, processed, msg, dcrashed>>

\* triggerctl delete <id>: store.DeleteTrigger(ctx, "default", id)
DeleteTrigger(namespace, name) ==
    /\ storeOps < MaxStoreOps
    /\ storeOps' = storeOps + 1
    /\ LET rev == [op |-> "delete", key |-> TriggerKey(namespace, name),
                   value |-> <<>>, last |-> TRUE] IN
       /\ bucket' = Append(bucket, rev)
       /\ updates' = IF phase = "watching" THEN Append(updates, rev) ELSE updates
    /\ UNCHANGED <<index, phase, processed, msg, dcrashed>>

\* The watch goroutine's handling of an update that adds the trigger of a
\* put without removing the id's previous entry.
applyUpdateKeepingOld(idx, update) ==
    IF update.op = "delete"
    THEN removeTrigger(idx, update.key)
    ELSE IF UnmarshalTrigger(update.value).err THEN idx
    ELSE addTrigger(idx, UnmarshalTrigger(update.value).trigger)

\* The index after the watch goroutine has handled one update.
applyUpdate(idx, update) ==
    IF update.op = "delete"
    THEN removeTrigger(idx, update.key)
    ELSE IF UnmarshalTrigger(update.value).err THEN idx
    ELSE LET t == UnmarshalTrigger(update.value).trigger IN
         addTrigger(removeTrigger(idx, t.ID), t)

\* One iteration of the watch goroutine's loop.
WatchUpdate ==
    /\ phase = "watching"
    /\ ~dcrashed
    /\ updates # <<>>
    /\ index' = applyUpdate(index, Head(updates))
    /\ processed' = Head(updates)
    /\ updates' = Tail(updates)
    /\ UNCHANGED <<bucket, phase, msg, dcrashed, storeOps>>

\* Watcher.handleMessage for one delivery: decode, handler, Ack or Nak.
handleMessage(decodes, ev, order) ==
    IF ~decodes
    THEN [delivered |-> TRUE, decoded |-> FALSE, event |-> NoEvent,
          handlerCalls |-> 0, result |-> "none", candidates |-> <<>>,
          matched |-> <<>>, invoked |-> <<>>, acks |-> 0, naks |-> 1]
    ELSE LET cands == getTriggers(index, ev.Namespace, order)
             h == handler(cands, ev) IN
         [delivered |-> TRUE, decoded |-> TRUE, event |-> ev,
          handlerCalls |-> 1, result |-> h.result, candidates |-> cands,
          matched |-> h.matched, invoked |-> h.invoked,
          acks |-> IF h.result = "nil" THEN 1 ELSE 0,
          naks |-> IF h.result = "error" THEN 1 ELSE 0]

\* The stream delivers a message to the subscription callback.
HandleMessage ==
    /\ phase = "watching"
    /\ ~dcrashed
    /\ \E decodes \in BOOLEAN, ev \in Events, order \in KeyOrders(PatternKeys(index)) :
          /\ msg' = handleMessage(decodes, ev, order)
          /\ dcrashed' = (msg'.result = "panic")
    /\ UNCHANGED <<bucket, updates, index, phase, processed, storeOps>>

NextDispatch ==
    \/ LoadAll /\ UNCHANGED otherThanDispatch
    \/ Watch /\ UNCHANGED otherThanDispatch
    \/ \E t \in TriggerPool : SaveTrigger("default", t.ID, t) /\ UNCHANGED otherThanDispatch
    \/ \E i \in TriggerIDs : DeleteTrigger("default", i) /\ UNCHANGED otherThanDispatch
    \/ WatchUpdate /\ UNCHANGED otherThanDispatch
    \/ HandleMessage /\ UNCHANGED otherThanDispatch

---------------------------------------------------------------------------
(* Direct calls of the index lookup and of the matcher *)

\* Namespaces that lookups are made for.
LookupNamespaces == {"prod", "dev", "prod.eu", "prodx"}

\* NATSStore.GetTriggers(namespace): the index lookup under the read lock.
GetTriggers(namespace) ==
    /\ \E order \in KeyOrders(PatternKeys(index)) :
          lookup' = [called |-> TRUE, namespace |-> namespace,
                     result |-> getTriggers(index, namespace, order)]
    /\ UNCHANGED <<svcVars, regVars, trigVars, mt, call, ex, mreg, st, ld>>

\* The trigger store with lookups made against it at any time.
NextIndex ==
    \/ LoadAll /\ UNCHANGED otherThanDispatch
    \/ Watch /\ UNCHANGED otherThanDispatch
    \/ \E t \in TriggerPool : SaveTrigger("default", t.ID, t) /\ UNCHANGED otherThanDispatch
    \/ \E i \in TriggerIDs : DeleteTrigger("default", i) /\ UNCHANGED otherThanDispatch
    \/ WatchUpdate /\ UNCHANGED otherThanDispatch
    \/ \E ns \in LookupNamespaces : GetTriggers(ns)

\* Triggers and events that MatchTrigger is called with.
MatchTriggers ==
    [ID : {"t"},
     Namespaces : {<<>>, <<"prod">>, <<"prod.*">>, <<"dev", "*">>},
     ObjectType : {"", "User"},
     EventType : {"", "user.updated"},
     Criteria : {"", "event.payload.after.role == \"admin\""},
     Enabled : BOOLEAN,
     Action : {"notify"}]
MatchEvents ==
    Events \cup
    {[EventID |-> "e4", Namespace |-> "prodx", EventType |-> "user.updated",
      ObjectType |-> "User", Context |-> "set", NATSMeta |-> "set", After |-> "user"],
     [EventID |-> "e5", Namespace |-> "prod", EventType |-> "config.updated",
      ObjectType |-> "Config", Context |-> "set", NATSMeta |-> "set", After |-> "admin"],
     [EventID |-> "e6", Namespace |-> "prod", EventType |-> "user.updated",
      ObjectType |-> "User", Context |-> "set", NATSMeta |-> "nil", After |-> "admin"]}

\* A call MatchTrigger(trigger, event).
MatchTriggerCall ==
    /\ \E t \in MatchTriggers, ev \in MatchEvents :
          mt' = [called |-> TRUE, trigger |-> t, event |-> ev,
                 result |-> MatchTrigger(t, ev)]
    /\ UNCHANGED <<svcVars, regVars, trigVars, lookup, call, ex, mreg, st, ld>>

NextMatch == MatchTriggerCall

---------------------------------------------------------------------------
(* NATSStore under its whole interface: any key, any value, LoadAll at any
   time, the lock s.mu *)

\* Trigger definitions saved through the store.
StorePool == {
    [ID |-> "a", Namespaces |-> <<"prod">>, ObjectType |-> "", EventType |-> "",
     Criteria |-> "", Enabled |-> TRUE, Action |-> "notify"],
    [ID |-> "a", Namespaces |-> <<>>, ObjectType |-> "", EventType |-> "",
     Criteria |-> "", Enabled |-> TRUE, Action |-> "notify"],
    [ID |-> "a", Namespaces |-> <<"dev", "dev">>, ObjectType |-> "", EventType |-> "",
     Criteria |-> "", Enabled |-> TRUE, Action |-> "notify"],
    [ID |-> "b", Namespaces |-> <<"prod.*">>, ObjectType |-> "", EventType |-> "",
     Criteria |-> "", Enabled |-> TRUE, Action |-> "audit"] }
StoreNamespaces == {"default", "other"}

\* A writer of the bucket other than SaveTrigger puts a value that is not a
\* trigger's JSON, or purges the key.
PutInvalid(key, op) ==
    /\ storeOps < MaxStoreOps
    /\ storeOps' = storeOps + 1
    /\ LET rev == [op |-> op, key |-> key,
                   value |-> IF op = "put" THEN <<"garbage">> ELSE <<>>,
                   last |-> TRUE] IN
       /\ bucket' = Append(bucket, rev)
       /\ updates' = IF phase = "watching" THEN Append(updates, rev) ELSE updates
    /\ UNCHANGED <<index, phase, processed, msg, dcrashed>>

\* store.LoadAll(ctx), at any time: under s.mu.Lock with a deferred Unlock.
LoadAllCall ==
    /\ st.mu = "free"
    /\ \E failAt \in 0..Len(LiveKeys(bucket)) :
          LET res == loadLoop(newNamespaceIndex, LiveKeys(bucket), 1, failAt) IN
          /\ index' = res.index
          /\ st' = [mu |-> "free", loadAll |-> res.err]
    /\ phase' = IF phase = "new" THEN "loaded" ELSE phase
    /\ UNCHANGED <<bucket, updates, processed, msg, dcrashed, storeOps>>

\* One iteration of the watch goroutine's loop: s.mu.Lock(), the update,
\* s.mu.Unlock(); the `continue` on a value that does not parse skips the
\* Unlock.
StoreWatchUpdate ==
    /\ phase = "watching"
    /\ updates # <<>>
    /\ st.mu = "free"
    /\ index' = applyUpdate(index, Head(updates))
    /\ st' = [mu |-> IF /\ Head(updates).op # "delete"
                        /\ UnmarshalTrigger(Head(updates).value).err
                     THEN "watcher" ELSE "free",
              loadAll |-> "none"]
    /\ processed' = Head(updates)
    /\ updates' = Tail(updates)
    /\ UNCHANGED <<bucket, phase, msg, dcrashed, storeOps>>

NextStore ==
    \/ \E t \in StorePool, ns \in StoreNamespaces :
          SaveTrigger(ns, t.ID, t) /\ UNCHANGED <<svcVars, regVars, matchVars>>
    \/ \E i \in {"a", "b"} :
          DeleteTrigger("default", i) /\ UNCHANGED <<svcVars, regVars, matchVars>>
    \/ \E op \in {"put", "purge"} :
          PutInvalid("default.b", op) /\ UNCHANGED <<svcVars, regVars, matchVars>>
    \/ LoadAllCall /\ UNCHANGED <<svcVars, regVars, lookup, mt, call, ex, mreg, ld>>
    \/ Watch /\ UNCHANGED <<svcVars, regVars, matchVars>>
    \/ StoreWatchUpdate /\ UNCHANGED <<svcVars, regVars, lookup, mt, call, ex, mreg, ld>>

---------------------------------------------------------------------------
(* Direct calls of isNamespaceMatch and has *)

NoCall == [fn |-> "none"]

\* Namespace patterns of triggers and namespaces of events.
CallPatterns ==
    {"", "prod", "dev", "prod.*", "*", "*.eu", "p*d", "prod.eu", "a.b", "**"}
CallNamespaces ==
    {"", "prod", "dev", "prod.", "prod.eu", "prodx", "prodxeu", "pd", "a.b",
     "axb", "x.eu"}

\* isNamespaceMatch on a trigger with the one pattern.
IsNamespaceMatchCall ==
    /\ \E pattern \in CallPatterns, namespace \in CallNamespaces :
          call' = [fn |-> "isNamespaceMatch", pattern |-> pattern,
                   namespace |-> namespace,
                   result |-> isNamespaceMatch(<<pattern>>, namespace)]
    /\ UNCHANGED <<svcVars, regVars, trigVars, lookup, mt, ex, mreg, st, ld>>

NextNamespace == IsNamespaceMatchCall

\* Values of the expression environment: a map[string]interface{} is
\* [kind |-> "map", m |-> keys to values], a string [kind |-> "string"],
\* an integer [kind |-> "int"], nil [kind |-> "nil"].
Str(x) == [kind |-> "string", s |-> x]
Map(f) == [kind |-> "map", m |-> f]
EmptyMap == Map(<<>>)
HasRoots ==
    {EmptyMap,
     Map([a |-> Str("v")]),
     Map([a |-> Str("v"), b |-> Map([c |-> Str("v")])]),
     Map([a |-> EmptyMap]),
     Map([a |-> Map([b |-> Str("v")])]),
     Map([a |-> Map([b |-> [kind |-> "nil"]])]),
     Map([a |-> Map([b |-> EmptyMap])]),
     Map([a |-> Map([b |-> Map([c |-> Str("v")])])]),
     Map([a |-> Map([b |-> Map([c |-> EmptyMap])])]),
     Map("" :> Map([a |-> Str("v")])),
     Map([a |-> Map("" :> Str("v"))]),
     Str("a"), [kind |-> "int"], [kind |-> "nil"]}
HasPaths ==
    {Str(""), Str("a"), Str("b"), Str("a.b"), Str("b.c"), Str("a.c"),
     Str("a.b.c"), Str("a.b.c.d"), Str("a."), Str(".a"), Str("a..b"),
     [kind |-> "int"], [kind |-> "nil"], EmptyMap}

\* strings.Split(path, "."): cur is the part being read.
RECURSIVE Split(_, _)
Split(path, cur) ==
    IF path = "" THEN <<cur>>
    ELSE IF Head(path) = "." THEN <<cur>> \o Split(Tail(path), "")
    ELSE Split(Tail(path), cur \o Head(path))

\* The loop of has that stops at the first part that exists.
hasLoopFirstPart(current, parts, i) ==
    IF i > Len(parts) THEN TRUE
    ELSE parts[i] \in DOMAIN current

\* The loop of has over parts, from position i, in the map current.
RECURSIVE hasLoop(_, _, _)
hasLoop(current, parts, i) ==
    IF i > Len(parts) THEN TRUE
    ELSE IF parts[i] \notin DOMAIN current THEN FALSE
    ELSE IF i = Len(parts) THEN TRUE
    ELSE IF current[parts[i]].kind # "map" THEN FALSE
    ELSE hasLoop(current[parts[i]].m, parts, i + 1)

\* has(args ...any): the value and the error it returns.
has(args) ==
    IF Len(args) # 2
    THEN [val |-> FALSE, err |-> "has() expects 2 arguments"]
    ELSE IF args[1].kind # "map" THEN [val |-> FALSE, err |-> "nil"]
    ELSE IF args[2].kind # "string" THEN [val |-> FALSE, err |-> "nil"]
    ELSE [val |-> hasLoop(args[1].m, Split(args[2].s, ""), 1), err |-> "nil"]

HasCall ==
    /\ \E args \in {<<root, path>> : root \in HasRoots, path \in HasPaths}
                  \cup {<<EmptyMap>>, <<EmptyMap, Str("a"), Str("b")>>} :
          call' = [fn |-> "has", args |-> args, result |-> has(args)]
    /\ UNCHANGED <<svcVars, regVars, trigVars, lookup, mt, ex, mreg, st, ld>>

NextHas == HasCall

---------------------------------------------------------------------------
(* Direct calls of loadPlugin and FunctionServer.Execute *)

\* meta.Type of the metadata handed to loadPlugin.
LoadTypes == {"builtin", "hashicorp-plugin", "external-plugin", "wat", ""}

LoadPluginCall ==
    /\ \E name \in FunctionNames, type \in LoadTypes, out \in ExternalOutcomes :
          call' = [fn |-> "loadPlugin", name |-> name, type |-> type, out |-> out,
                   result |-> loadPlugin(name, type, out)]
    /\ UNCHANGED <<svcVars, regVars, trigVars, lookup, mt, ex, mreg, st, ld>>

NextLoad == LoadPluginCall

\* What s.Impl.Execute returns: up to MaxEvents events, or an error.
ImplEvents == {"r1", "r2", "r3"}
ImplResults ==
    {[events |-> es, err |-> "nil"] :
        es \in UNION {[1..n -> ImplEvents] : n \in 0..MaxEvents}}
    \cup {[events |-> <<>>, err |-> "boom"]}

\* FunctionServer.Execute: the FunctionResult it fills and the error it returns.
FunctionServerExecute(impl) ==
    IF impl.err # "nil"
    THEN [Event |-> "nil", Error |-> impl.err, ret |-> "nil"]
    ELSE IF Len(impl.events) > 0
    THEN [Event |-> impl.events[1], Error |-> "", ret |-> "nil"]
    ELSE [Event |-> "nil", Error |-> "", ret |-> "nil"]

FunctionServerExecuteCall ==
    /\ \E impl \in ImplResults :
          call' = [fn |-> "FunctionServer.Execute", impl |-> impl,
                   result |-> FunctionServerExecute(impl)]
    /\ UNCHANGED <<svcVars, regVars, trigVars, lookup, mt, ex, mreg, st, ld>>

NextPluginRPC == FunctionServerExecuteCall

---------------------------------------------------------------------------
(* Client.InvokeFunction on the service's reply *)

ReplyErrorTypes ==
    {"invalid_request", "plugin_not_found", "execution_error", "response_error"}
ReplyMessages ==
    {"", "simulated error", "function nope not found", "unexpected end of JSON input",
     "unsupported plugin type: wat"}

\* The JSON the service sends: respondWithError's {error, errorType}, or the
\* handler's {events}; a field list tagged with its keys.
MarshalErrorReply(errorType, message) ==
    <<"json", [error |-> message, errorType |-> errorType]>>
MarshalSuccessReply(events) == <<"json", [events |-> events]>>
Replies ==
    {MarshalErrorReply(t, m) : t \in ReplyErrorTypes, m \in ReplyMessages}
    \cup {MarshalSuccessReply(es) :
              es \in UNION {[1..n -> ImplEvents] : n \in 0..MaxEvents}}

\* json.Unmarshal into the client's resp struct: absent fields stay zero.
UnmarshalReply(data) ==
    LET f == data[2] IN
    [Events |-> IF "events" \in DOMAIN f THEN f.events ELSE <<>>,
     Error |-> IF "error" \in DOMAIN f THEN f.error ELSE "",
     ErrorType |-> IF "errorType" \in DOMAIN f THEN f.errorType ELSE ""]

\* InvokeFunction after the reply has arrived: the events and the error.
InvokeFunction(data) ==
    LET resp == UnmarshalReply(data) IN
    IF resp.Error # ""
    THEN [events |-> <<>>,
          err |-> "function error (" \o resp.ErrorType \o "): " \o resp.Error]
    ELSE [events |-> resp.Events, err |-> "nil"]

InvokeFunctionCall ==
    /\ \E data \in Replies :
          call' = [fn |-> "InvokeFunction", reply |-> data,
                   result |-> InvokeFunction(data)]
    /\ UNCHANGED <<svcVars, regVars, trigVars, lookup, mt, ex, mreg, st, ld>>

NextClient == InvokeFunctionCall

---------------------------------------------------------------------------
(* PluginManager.LoadPlugin step by step: scratch directory and subprocess *)

NotLoading == [pc |-> "idle"]

\* loadPlugin hands an external plugin's metadata and binary to LoadPlugin.
LoadPluginBegin(r) ==
    /\ ld[r].pc = "idle"
    /\ \E name \in {"ext", "wat"} :
          ld' = [ld EXCEPT ![r] = [pc |-> "MkdirTemp", name |-> name, dir |-> "none",
                                   proc |-> "none", handle |-> "nil", err |-> "none"]]
    /\ UNCHANGED <<svcVars, regVars, trigVars, lookup, mt, call, ex, mreg, st>>

\* LoadPlugin's return: the deferred os.RemoveAll(dir) runs, whatever the
\* result.
LoadPluginReturn(l, handle, err) ==
    [l EXCEPT !.pc = "returned", !.handle = handle, !.err = err,
              !.dir = IF l.dir = "none" THEN "none" ELSE "removed"]

\* os.MkdirTemp
LoadPluginMkdirTemp(r) ==
    /\ ld[r].pc = "MkdirTemp"
    /\ \E fail \in BOOLEAN :
          ld' = [ld EXCEPT ![r] =
                    IF fail
                    THEN [@ EXCEPT !.pc = "returned",
                                   !.err = "failed to create temp directory"]
                    ELSE [@ EXCEPT !.pc = "WriteFile", !.dir = "exists"]]
    /\ UNCHANGED <<svcVars, regVars, trigVars, lookup, mt, call, ex, mreg, st>>

\* os.WriteFile(pluginPath, binary, 0755)
LoadPluginWriteFile(r) ==
    /\ ld[r].pc = "WriteFile"
    /\ \E fail \in BOOLEAN :
          ld' = [ld EXCEPT ![r] =
                    IF fail
                    THEN LoadPluginReturn(@, "nil", "failed to write plugin binary")
                    ELSE [@ EXCEPT !.pc = "Client"]]
    /\ UNCHANGED <<svcVars, regVars, trigVars, lookup, mt, call, ex, mreg, st>>

\* client.Client(): starts the subprocess; on failure client.Kill().
LoadPluginClient(r) ==
    /\ ld[r].pc = "Client"
    /\ \E fail \in BOOLEAN :
          ld' = [ld EXCEPT ![r] =
                    IF fail
                    THEN LoadPluginReturn([@ EXCEPT !.proc = "killed"], "nil",
                                          "failed to connect to plugin")
                    ELSE [@ EXCEPT !.pc = "Dispense", !.proc = "running"]]
    /\ UNCHANGED <<svcVars, regVars, trigVars, lookup, mt, call, ex, mreg, st>>

\* rpcClient.Dispense and the wrapper: a failed Dispense kills the
\* subprocess; raw.(Function) panics when raw is no Function.
LoadPluginDispense(r) ==
    /\ ld[r].pc = "Dispense"
    /\ \E out \in {"error", "ok", "panic"} :
          ld' = [ld EXCEPT ![r] =
                    CASE out = "error" ->
                            LoadPluginReturn([@ EXCEPT !.proc = "killed"], "nil",
                                             "failed to dispense plugin")
                      [] out = "ok" -> LoadPluginReturn(@, "pluginWrapper", "nil")
                      [] OTHER -> LoadPluginReturn(@, "nil", "panic")]
    /\ UNCHANGED <<svcVars, regVars, trigVars, lookup, mt, call, ex, mreg, st>>

NextLoadPlugin ==
    \/ \E r \in Requests : LoadPluginBegin(r)
    \/ \E r \in Requests : LoadPluginMkdirTemp(r)
    \/ \E r \in Requests : LoadPluginWriteFile(r)
    \/ \E r \in Requests : LoadPluginClient(r)
    \/ \E r \in Requests : LoadPluginDispense(r)

---------------------------------------------------------------------------
(* MemoryRegistry under sequences of direct calls *)

MemNames == {"f", "g"}
MemMetas ==
    {[Name |-> n, Type |-> "builtin", Version |-> v] :
        n \in MemNames, v \in {"1.0.0", "2.0.0"}}
MemBinaries == {"b1", "b2"}
NoRegistryEntry == [exists |-> FALSE]
NoRet == [fn |-> "none"]

\* r.functions[meta.Name] = registryEntry{meta: meta, binary: binary}
MemoryRegistryStoreFunction(fs, fmeta, binary) ==
    [fs EXCEPT ![fmeta.Name] = [exists |-> TRUE, meta |-> fmeta, binary |-> binary]]

\* GetFunction: the entry, or the not-found error.
MemoryRegistryGetFunction(fs, name) ==
    IF ~fs[name].exists
    THEN [fn |-> "GetFunction", name |-> name,
          err |-> "function " \o name \o " not found"]
    ELSE [fn |-> "GetFunction", name |-> name, err |-> "nil",
          meta |-> fs[name].meta, binary |-> fs[name].binary]

\* The orders a range over the map may visit its keys in.
MemOrders(fs) ==
    LET keys == {n \in MemNames : fs[n].exists} IN
    {o \in UNION {[1..k -> keys] : k \in 0..Cardinality(MemNames)} :
        /\ Len(o) = Cardinality(keys)
        /\ \A i, j \in 1..Len(o) : i # j => o[i] # o[j]}

\* ListFunctions: the meta of every entry, in the order of the range.
MemoryRegistryListFunctions(fs, order) ==
    [fn |-> "ListFunctions", err |-> "nil",
     functions |-> [i \in 1..Len(order) |-> fs[order[i]].meta]]

\* DeleteFunction that leaves the map as it is.
MemoryRegistryDeleteNothing(fs, name) == fs

\* delete(r.functions, name)
MemoryRegistryDeleteFunction(fs, name) ==
    [fs EXCEPT ![name] = NoRegistryEntry]

MemStore ==
    /\ Len(mreg.history) < MaxOps
    /\ \E fmeta \in MemMetas, binary \in MemBinaries :
          mreg' = [functions |-> MemoryRegistryStoreFunction(mreg.functions, fmeta, binary),
                   history |-> Append(mreg.history,
                                  [op |-> "store", name |-> fmeta.Name,
                                   meta |-> fmeta, binary |-> binary]),
                   ret |-> [fn |-> "StoreFunction", err |-> "nil"]]
    /\ UNCHANGED <<svcVars, regVars, trigVars, lookup, mt, call, ex, st, ld>>

MemDelete ==
    /\ Len(mreg.history) < MaxOps
    /\ \E name \in MemNames :
          mreg' = [functions |-> MemoryRegistryDeleteFunction(mreg.functions, name),
                   history |-> Append(mreg.history, [op |-> "delete", name |-> name]),
                   ret |-> [fn |-> "DeleteFunction", err |-> "nil"]]
    /\ UNCHANGED <<svcVars, regVars, trigVars, lookup, mt, call, ex, st, ld>>

MemGet ==
    /\ \E name \in MemNames :
          mreg' = [mreg EXCEPT !.ret = MemoryRegistryGetFunction(mreg.functions, name)]
    /\ UNCHANGED <<svcVars, regVars, trigVars, lookup, mt, call, ex, st, ld>>

MemList ==
    /\ \E order \in MemOrders(mreg.functions) :
          mreg' = [mreg EXCEPT !.ret = MemoryRegistryListFunctions(mreg.functions, order)]
    /\ UNCHANGED <<svcVars, regVars, trigVars, lookup, mt, call, ex, st, ld>>

NextMemory ==
    \/ MemStore
    \/ MemDelete
    \/ MemGet
    \/ MemList

---------------------------------------------------------------------------
(* ExampleFunction.Execute, run by several goroutines on one instance *)

ExampleEvents ==
    {[ID |-> i, Type |-> t] : i \in {"x-1", "x-2", ""},
                              t \in {"com.example.test", "com.example.concurrent"}}
NotCalled == [pc |-> "idle"]

\* The response built for the event by the function named name, with the id
\* of the event itself.
ExampleResponseEcho(name, event) ==
    [ID |-> event.ID, Source |-> "example-function",
     Type |-> "com.example.response",
     Data |-> [message |-> "Processed event " \o event.ID \o " by function " \o name,
               original_type |-> event.Type]]

\* The response ExampleFunction.Execute builds for the event; name is f.name.
ExampleResponse(name, event) ==
    [ID |-> "response-" \o event.ID, Source |-> "example-function",
     Type |-> "com.example.response",
     Data |-> [message |-> "Processed event " \o event.ID \o " by function " \o name,
               original_type |-> event.Type]]

\* A goroutine calls function.Execute(ctx, event).
ExampleCall(r) ==
    /\ ex[r].pc \in {"idle", "returned"}
    /\ \E event \in ExampleEvents :
          ex' = [ex EXCEPT ![r] = [pc |-> "called", event |-> event]]
    /\ UNCHANGED <<svcVars, regVars, trigVars, lookup, mt, call, mreg, st, ld>>

\* The body fills its local response from the event and f.name.
ExampleBuild(r) ==
    /\ ex[r].pc = "called"
    /\ ex' = [ex EXCEPT ![r] =
                 [pc |-> "built", event |-> ex[r].event,
                  response |-> ExampleResponse("example", ex[r].event)]]
    /\ UNCHANGED <<svcVars, regVars, trigVars, lookup, mt, call, mreg, st, ld>>

\* return []*ce.Event{&response}, nil
ExampleReturn(r) ==
    /\ ex[r].pc = "built"
    /\ ex' = [ex EXCEPT ![r] =
                 [pc |-> "returned", event |-> ex[r].event,
                  events |-> <<ex[r].response>>, err |-> "nil"]]
    /\ UNCHANGED <<svcVars, regVars, trigVars, lookup, mt, call, mreg, st, ld>>

NextExample ==
    \/ \E r \in Requests : ExampleCall(r)
    \/ \E r \in Requests : ExampleBuild(r)
    \/ \E r \in Requests : ExampleReturn(r)

---------------------------------------------------------------------------
(* NATSRegistry *)

Clients == 1..NumClients
RegNames == {"fa", "fb"}
Versions == {"1.0.0", "2.0.0"}
Binaries == {"bin1", "bin2"}
NoEntry == <<>>
NoObject == ""
\* An object that was stored and then deleted: the object store keeps its
\* info record, marked deleted.
Tombstone == "deleted"
HasObject(name) == objectStore[name] \notin {NoObject, Tombstone}
NoArgs == [meta |-> [Name |-> "", Type |-> "", Version |-> ""], binary |-> NoObject]

\* json.Marshal(meta) and json.Unmarshal of a stored value: the encoding is a
\* tagged field list, decoding reads the fields back and fails on anything else.
MarshalMeta(m) == <<"json", m.Name, m.Type, m.Version>>
UnmarshalMeta(v) ==
    IF Len(v) = 4 /\ v[1] = "json"
    THEN [err |-> FALSE, meta |-> [Name |-> v[2], Type |-> v[3], Version |-> v[4]]]
    ELSE [err |-> TRUE, meta |-> [Name |-> "", Type |-> "", Version |-> ""]]

\* NATSRegistry.GetFunction on the current buckets: kv.Get, json.Unmarshal,
\* objectStore.GetBytes; the first failing step decides the error.
NATSGetFunction(name) ==
    IF kv[name] = NoEntry
    THEN [err |-> "get_metadata", meta |-> NoEntry, binary |-> NoObject]
    ELSE IF UnmarshalMeta(kv[name]).err
    THEN [err |-> "unmarshal_metadata", meta |-> NoEntry, binary |-> NoObject]
    ELSE IF ~HasObject(name)
    THEN [err |-> "get_binary", meta |-> NoEntry, binary |-> NoObject]
    ELSE [err |-> "", meta |-> UnmarshalMeta(kv[name]).meta,
          binary |-> objectStore[name]]

\* A client calls StoreFunction(meta, binary).
StoreFunctionCall(c) ==
    /\ rpc[c] = "idle"
    /\ ops < MaxOps
    /\ ops' = ops + 1
    /\ \E n \in RegNames, v \in Versions, b \in Binaries :
          rarg' = [rarg EXCEPT ![c] =
                      [meta |-> [Name |-> n, Type |-> "builtin", Version |-> v],
                       binary |-> b]]
    /\ rpc' = [rpc EXCEPT ![c] = "kvPut"]
    /\ UNCHANGED <<kv, objectStore, rret>>

\* StoreFunction: r.kv.Put(meta.Name, metaData); a failed Put returns the error.
StoreFunctionPut(c) ==
    /\ rpc[c] = "kvPut"
    /\ \E fail \in BOOLEAN :
          IF fail
          THEN /\ rpc' = [rpc EXCEPT ![c] = "idle"]
               /\ rret' = [rret EXCEPT ![c] = "failed to store metadata"]
               /\ rarg' = [rarg EXCEPT ![c] = NoArgs]
               /\ UNCHANGED kv
          ELSE /\ kv' = [kv EXCEPT ![rarg[c].meta.Name] = MarshalMeta(rarg[c].meta)]
               /\ rpc' = [rpc EXCEPT ![c] = "putBytes"]
               /\ UNCHANGED <<rret, rarg>>
    /\ UNCHANGED <<objectStore, ops>>

\* StoreFunction: r.objectStore.PutBytes(meta.Name, binary); a failed write
\* returns the error and leaves the metadata written by the Put in place.
StoreFunctionPutBytes(c) ==
    /\ rpc[c] = "putBytes"
    /\ \E fail \in BOOLEAN :
          IF fail
          THEN /\ rret' = [rret EXCEPT ![c] = "failed to store binary"]
               /\ UNCHANGED objectStore
          ELSE /\ objectStore' = [objectStore EXCEPT ![rarg[c].meta.Name] = rarg[c].binary]
               /\ rret' = [rret EXCEPT ![c] = "ok"]
    /\ rpc' = [rpc EXCEPT ![c] = "idle"]
    /\ rarg' = [rarg EXCEPT ![c] = NoArgs]
    /\ UNCHANGED <<kv, ops>>

\* A client calls DeleteFunction(name).
DeleteFunctionCall(c) ==
    /\ rpc[c] = "idle"
    /\ ops < MaxOps
    /\ ops' = ops + 1
    /\ \E n \in RegNames :
          rarg' = [rarg EXCEPT ![c] =
                      [meta |-> [Name |-> n, Type |-> "", Version |-> ""],
                       binary |-> NoObject]]
    /\ rpc' = [rpc EXCEPT ![c] = "kvDelete"]
    /\ UNCHANGED <<kv, objectStore, rret>>

\* DeleteFunction: r.kv.Delete(name) (a delete marker: no error for an absent
\* key); a failed Delete returns the error.
DeleteFunctionKV(c) ==
    /\ rpc[c] = "kvDelete"
    /\ \E fail \in BOOLEAN :
          IF fail
          THEN /\ rpc' = [rpc EXCEPT ![c] = "idle"]
               /\ rret' = [rret EXCEPT ![c] = "failed to delete metadata"]
               /\ rarg' = [rarg EXCEPT ![c] = NoArgs]
               /\ UNCHANGED kv
          ELSE /\ kv' = [kv EXCEPT ![rarg[c].meta.Name] = NoEntry]
               /\ rpc' = [rpc EXCEPT ![c] = "objDelete"]
               /\ UNCHANGED <<rret, rarg>>
    /\ UNCHANGED <<objectStore, ops>>

\* DeleteFunction: r.objectStore.Delete(name); it fails on an I/O error and,
\* with "object not found", when no object of that name was ever stored; for
\* an object already deleted the store may report either.
DeleteFunctionObject(c) ==
    /\ rpc[c] = "objDelete"
    /\ \E fail \in BOOLEAN :
          IF \/ objectStore[rarg[c].meta.Name] = NoObject
             \/ (objectStore[rarg[c].meta.Name] = Tombstone /\ fail)
          THEN /\ rret' = [rret EXCEPT ![c] = "failed to delete binary: object not found"]
               /\ UNCHANGED objectStore
          ELSE IF fail
          THEN /\ rret' = [rret EXCEPT ![c] = "failed to delete binary"]
               /\ UNCHANGED objectStore
          ELSE /\ objectStore' = [objectStore EXCEPT ![rarg[c].meta.Name] = Tombstone]
               /\ rret' = [rret EXCEPT ![c] = "ok"]
    /\ rpc' = [rpc EXCEPT ![c] = "idle"]
    /\ rarg' = [rarg EXCEPT ![c] = NoArgs]
    /\ UNCHANGED <<kv, ops>>

\* A client calls StoreFunction with one of the releases: a version and the
\* binary built for it.
Releases == {<<"1.0.0", "bin1">>, <<"2.0.0", "bin2">>}
StoreReleaseCall(c) ==
    /\ rpc[c] = "idle"
    /\ ops < MaxOps
    /\ ops' = ops + 1
    /\ \E n \in RegNames, rel \in Releases :
          rarg' = [rarg EXCEPT ![c] =
                      [meta |-> [Name |-> n, Type |-> "builtin", Version |-> rel[1]],
                       binary |-> rel[2]]]
    /\ rpc' = [rpc EXCEPT ![c] = "kvPut"]
    /\ UNCHANGED <<kv, objectStore, rret>>

NextReleases ==
    \/ \E c \in Clients : StoreReleaseCall(c) /\ UNCHANGED otherThanRegistry
    \/ \E c \in Clients : StoreFunctionPut(c) /\ UNCHANGED otherThanRegistry
    \/ \E c \in Clients : StoreFunctionPutBytes(c) /\ UNCHANGED otherThanRegistry

NextRegistry ==
    \/ \E c \in Clients : StoreFunctionCall(c) /\ UNCHANGED otherThanRegistry
    \/ \E c \in Clients : StoreFunctionPut(c) /\ UNCHANGED otherThanRegistry
    \/ \E c \in Clients : StoreFunctionPutBytes(c) /\ UNCHANGED otherThanRegistry
    \/ \E c \in Clients : DeleteFunctionCall(c) /\ UNCHANGED otherThanRegistry
    \/ \E c \in Clients : DeleteFunctionKV(c) /\ UNCHANGED otherThanRegistry
    \/ \E c \in Clients : DeleteFunctionObject(c) /\ UNCHANGED otherThanRegistry

---------------------------------------------------------------------------

---------------------------------------------------------------------------
(* Properties *)

\* A request is inside getPlugin's miss path: registry fetch, load or insert.
Loading(r) == pc[r] \in {"GetFunction", "loadPlugin", "store", "insert"}

\* C1: concurrent getPlugin(n) calls against a cold cache perform the registry
\* fetch and the plugin load for n at most once: no two requests are ever
\* inside the load of the same name at the same time.
C1_SingleFlight ==
    \A r1, r2 \in Requests :
        (r1 # r2 /\ Loading(r1) /\ Loading(r2))
            => request[r1].FunctionName # request[r2].FunctionName

\* C2: at every moment at most one plugin handle exists per name, and every
\* request that obtained a handle for n holds the one cached under n.
C2_OneHandlePerName ==
    /\ \A n \in FunctionNames :
          Cardinality({h \in 1..Len(handles) : handles[h] = n}) <= 1
    /\ \A r \in Requests :
          pc[r] = "Execute" => plugin[r] = plugins[request[r].FunctionName]

\* C3: whenever no StoreFunction or DeleteFunction call is in progress, every
\* name has its metadata and its binary both present or both absent, so that
\* GetFunction returns both halves or fails on the missing metadata.
C3_MetaAndBinaryTogether ==
    (\A c \in Clients : rpc[c] = "idle")
        => \A n \in RegNames :
              /\ (kv[n] # NoEntry) <=> HasObject(n)
              /\ NATSGetFunction(n).err \in {"", "get_metadata"}

\* C4: every delivery handled by handleMessage gets exactly one of Ack and
\* Nak, whatever the decode result and whatever the handler does.
C4_ExactlyOneAckOrNak ==
    msg.delivered => msg.acks + msg.naks = 1

\* C5: Ack is issued exactly when the message decoded and the handler returned
\* without failure; a decoding failure issues Nak without calling the
\* handler, and a handler panic issues Nak.
C5_AckIffHandled ==
    msg.delivered =>
        /\ (msg.acks = 1) <=> (msg.decoded /\ msg.result = "nil")
        /\ ~msg.decoded => (msg.naks = 1 /\ msg.handlerCalls = 0)
        /\ msg.result = "panic" => msg.naks = 1

\* C6: a candidate whose criteria fails to evaluate counts as not matching;
\* every other candidate that matches is in the match set, and the
\* evaluation error alone does not turn the delivery into a Nak.
C6_EvaluationErrorSkipsTrigger ==
    (msg.delivered /\ msg.decoded /\ msg.result # "panic") =>
        /\ \A i \in 1..Len(msg.candidates) :
              MatchTrigger(msg.candidates[i], msg.event) = "true"
                  => \E j \in 1..Len(msg.matched) : msg.matched[j] = msg.candidates[i]
        /\ msg.naks = 0

\* The ids listed in some exact or pattern bucket of the index.
Listed(idx) ==
    UNION {{idx.exactMatches[p][k] : k \in 1..Len(idx.exactMatches[p])} : p \in Patterns}
    \cup UNION {{idx.patternMatches[p][k] : k \in 1..Len(idx.patternMatches[p])} : p \in Patterns}

\* C7: once the watcher has processed the delete notification for the key
\* <namespace>.<triggerId>, that trigger is in neither the by-id map nor any
\* bucket.
C7_DeleteRemovesTrigger ==
    processed.op = "delete" =>
        \A i \in TriggerIDs :
            TriggerKey("default", i) = processed.key
                => (index.triggers[i] = NoTrigger /\ i \notin Listed(index))

\* C8: every request whose handler has ended got exactly one reply, and no
\* request ever gets more than one.
C8_ExactlyOneReply ==
    \A r \in Requests :
        /\ Len(replies[r]) <= 1
        /\ pc[r] \in {"done", "panic"} => Len(replies[r]) = 1

\* getPlugin returned an error for the request.
GetPluginFailed(r) == pc[r] = "done" /\ request[r].ok /\ plugin[r] = 0

\* C9: when obtaining the plugin fails, the reply says plugin_not_found if the
\* registry has no entry or the entry is a builtin that is not compiled in,
\* and execution_error if the entry exists but the external load failed.
C9_LoadFailureErrorType ==
    \A r \in Requests :
        GetPluginFailed(r) =>
            /\ meta[r] \in {"", "builtin"} => replies[r] = <<"plugin_not_found">>
            /\ meta[r] = "hashicorp-plugin" => replies[r] = <<"execution_error">>

\* The actions of a list of triggers, in order.
Actions(ts) == [i \in 1..Len(ts) |-> ts[i].Action]

\* C10: when a delivery is acknowledged, the dispatcher has invoked the action
\* of every matching trigger once.
C10_InvokesEveryMatch ==
    (msg.delivered /\ msg.acks = 1) => msg.invoked = Actions(msg.matched)

\* The wildcard rule for namespace patterns: `*` stands for any substring,
\* every other character for itself.
RECURSIVE WildcardMatch(_, _)
WildcardMatch(pattern, s) ==
    IF pattern = "" THEN s = ""
    ELSE IF Head(pattern) = "*"
    THEN \/ WildcardMatch(Tail(pattern), s)
         \/ (s # "" /\ WildcardMatch(pattern, Tail(s)))
    ELSE s # "" /\ Head(pattern) = Head(s) /\ WildcardMatch(Tail(pattern), Tail(s))

\* C11: for an enabled trigger with empty criteria, MatchTrigger is true
\* exactly when the event type test, the namespace pattern test and the object
\* type test all pass.
C11_EmptyCriteriaMatch ==
    (mt.called /\ mt.trigger.Enabled /\ mt.trigger.Criteria = "") =>
        ((mt.result = "true") <=>
            /\ mt.trigger.EventType \in {"", mt.event.EventType}
            /\ \/ Len(mt.trigger.Namespaces) = 0
               \/ \E i \in 1..Len(mt.trigger.Namespaces) :
                     WildcardMatch(mt.trigger.Namespaces[i], mt.event.Namespace)
            /\ mt.trigger.ObjectType \in {"", mt.event.ObjectType})

\* The ids a lookup of the namespace has to return: the indexed triggers
\* listed under exact[namespace] or under a pattern bucket whose pattern
\* matches the namespace.
LookupIDs(idx, namespace) ==
    {i \in TriggerIDs :
        /\ idx.triggers[i] # NoTrigger
        /\ \/ /\ namespace \in Patterns
              /\ \E k \in 1..Len(idx.exactMatches[namespace]) :
                    idx.exactMatches[namespace][k] = i
           \/ \E p \in Patterns :
                 /\ p = "*" \/ WildcardMatch(p, namespace)
                 /\ \E k \in 1..Len(idx.patternMatches[p]) :
                       idx.patternMatches[p][k] = i}

\* A lookup result holds exactly the expected triggers, each once.
LookupExact(idx, l) ==
    /\ {l.result[k].ID : k \in 1..Len(l.result)} = LookupIDs(idx, l.namespace)
    /\ \A k \in 1..Len(l.result) : l.result[k] = idx.triggers[l.result[k].ID]
    /\ \A j, k \in 1..Len(l.result) : j # k => l.result[j].ID # l.result[k].ID

\* C12: every GetTriggers(namespace) call returns exactly the indexed triggers
\* listed under exact[namespace] or under a pattern bucket whose pattern
\* matches the namespace, each trigger once.
C12_LookupUnion ==
    [][lookup' # lookup => LookupExact(index, lookup')]_vars

\* C13: every request the handler has finished has exactly one invocation
\* metric, whose status is the outcome that was replied.
C13_OneInvocationMetric ==
    \A r \in Requests :
        pc[r] = "done" =>
            /\ Len(metrics[r]) = 1
            /\ Len(replies[r]) = 1
            /\ metrics[r][1] = <<"invocation", replies[r][1]>>

\* No other client has a call for the name in progress.
Alone(c, name) ==
    \A d \in Clients \ {c} : rpc[d] = "idle" \/ rarg[d].meta.Name # name

\* C14: when StoreFunction returns the blob write's failure, the metadata it
\* wrote under the name is gone again.
C14_FailedStoreDeletesMetadata ==
    [][\A c \in Clients :
          (rpc[c] = "putBytes" /\ rret'[c] = "failed to store binary"
             /\ rpc'[c] = "idle" /\ Alone(c, rarg[c].meta.Name))
          => kv'[rarg[c].meta.Name] = NoEntry]_vars

\* C15: DeleteFunction does not fail because a half of the entry is absent,
\* and once it has returned without an I/O failure GetFunction finds nothing
\* under the name.
C15_DeleteAbsentSucceeds ==
    [][\A c \in Clients :
          (rpc[c] = "objDelete" /\ rpc'[c] = "idle"
             /\ rret'[c] # "failed to delete binary")
          => /\ rret'[c] = "ok"
             /\ Alone(c, rarg[c].meta.Name)
                   => (kv'[rarg[c].meta.Name] = NoEntry
                       /\ objectStore'[rarg[c].meta.Name] \in {NoObject, Tombstone})]_vars

ErrorTypes == {"invalid_request", "plugin_not_found", "execution_error",
               "response_error"}

\* C16: a request whose registry fetch or load fails is answered with the
\* failure and leaves the cache and the handles as they were; a lookup that
\* finds no entry goes on to the registry, and one that finds an entry gets a
\* built handle of that name.
C16_FailedLoadNotCached ==
    [][\A r \in Requests :
          /\ (pc[r] \in {"GetFunction", "loadPlugin"} /\ pc'[r] = "done")
                => /\ plugins' = plugins
                   /\ handles' = handles
                   /\ Len(replies'[r]) = 1
                   /\ replies'[r][1] \in ErrorTypes
          /\ (pc[r] = "lookup" /\ pc'[r] # "lookup")
                => IF plugins[request[r].FunctionName] = 0
                   THEN pc'[r] = "GetFunction"
                   ELSE /\ pc'[r] = "Execute"
                        /\ plugin'[r] \in 1..Len(handles)
                        /\ handles[plugin'[r]] = request[r].FunctionName]_vars

\* A load of ext failed with a loader error, no entry was cached, and another
\* request for ext has fetched it from the registry again and is loading it.
C16_Witness ==
    \E r1, r2 \in Requests :
        /\ r1 # r2
        /\ GetPluginFailed(r1) /\ meta[r1] = "hashicorp-plugin"
        /\ request[r2].FunctionName = request[r1].FunctionName
        /\ pc[r2] = "loadPlugin"
        /\ registryCalls[request[r1].FunctionName] = 2
        /\ plugins[request[r1].FunctionName] = 0

\* C17: a request holds rs.mu only at the map lookup (for reading) and at the
\* map insert (for writing): never while it fetches from the registry, loads
\* a plugin or runs Execute.
C17_NoLockAcrossLoadOrExecute ==
    \A r \in Requests :
        /\ r \in mu.readers <=> pc[r] = "lookup"
        /\ mu.writer = r <=> pc[r] = "insert"
        /\ pc[r] \in {"GetFunction", "loadPlugin", "Execute"}
              => (r \notin mu.readers /\ mu.writer # r)

\* One request is loading or executing while another holds the mutex.
C17_Witness ==
    \E r1, r2 \in Requests :
        /\ pc[r1] \in {"loadPlugin", "Execute"}
        /\ (mu.writer = r2 \/ r2 \in mu.readers)

\* C18: while one invocation is inside Execute, a delivered invocation of
\* another function is never held up and ends with its reply: it has been
\* answered, or its handler can take its next step.
C18_UnrelatedNotSerialized ==
    \A a, b \in Requests :
        (/\ a # b
         /\ pc[a] = "Execute"
         /\ pc[b] # "idle"
         /\ request[a].FunctionName # request[b].FunctionName)
        => \/ pc[b] = "done" /\ Len(replies[b]) = 1
           \/ ENABLED (HandlerStep(b) /\ UNCHANGED otherThanService)

\* C19: a request that reached Execute and whose deadline passed before
\* Execute returned is answered with execution_error or not at all.
C19_DeadlineAbandonsExecute ==
    \A r \in Requests :
        (pc[r] = "done" /\ expired[r] /\ plugin[r] # 0)
            => replies[r] \in {<<>>, <<"execution_error">>}

\* C20: every step of a request's handling, its delivery included, is taken
\* after Start and before Stop.
C20_HandledOnlyWhileStarted ==
    [][\A r \in Requests : pc'[r] # pc[r] => lifecycle = "started"]_vars

\* C21: once Stop has returned, the cache holds no handle and every handle
\* the service built has been closed.
C21_StopClosesHandles ==
    lifecycle = "stopped" =>
        /\ \A n \in FunctionNames : plugins[n] = 0
        /\ \A h \in 1..Len(handles) : h \in dead

C23_DisabledNeverMatchesStaysIndexed ==
    [][/\ msg' # msg =>
            /\ \A k \in 1..Len(msg'.matched) : msg'.matched[k].Enabled
            /\ \A t \in MatchTriggers :
                  ~t.Enabled => MatchTrigger(t, msg'.event) = "false"
       /\ (/\ processed' # processed
           /\ processed'.op = "put"
           /\ ~UnmarshalTrigger(processed'.value).trigger.Enabled)
            => UnmarshalTrigger(processed'.value).trigger \in GetAllTriggers(index')
       /\ \A i \in TriggerIDs :
            (/\ index.triggers[i] # NoTrigger
             /\ ~index.triggers[i].Enabled
             /\ index'.triggers[i] = NoTrigger)
            => processed'.op = "delete"]_vars

\* A delivery was handled without failure while a disabled trigger, listed by
\* GetAllTriggers, was among its candidates and is not in its match set.
C23_Witness ==
    /\ msg.delivered /\ msg.result = "nil"
    /\ \E k \in 1..Len(msg.candidates) :
          /\ ~msg.candidates[k].Enabled
          /\ msg.candidates[k] \in GetAllTriggers(index)
          /\ \A j \in 1..Len(msg.matched) : msg.matched[j] # msg.candidates[k]

\* C24: a trigger with a non-empty event type matches only events of that
\* type, and one with a non-empty object type only events of that object
\* type, with or without criteria.
C24_TypesAlwaysTested ==
    (mt.called /\ mt.result = "true") =>
        /\ mt.trigger.EventType \in {"", mt.event.EventType}
        /\ mt.trigger.ObjectType \in {"", mt.event.ObjectType}

\* C26: evaluating criteria against an event without context or delivery
\* metadata does not crash.
C26_MissingExtensionsDoNotCrash ==
    (mt.called /\ mt.trigger.Enabled /\ mt.trigger.Criteria # ""
       /\ (mt.event.Context = "nil" \/ mt.event.NATSMeta = "nil"))
        => mt.result # "panic"

\* C25: a namespace pattern matches a namespace exactly when the namespace
\* is the pattern with each `*` replaced by some substring, every other
\* character, `.` included, standing for itself.
C25_PatternIsGlob ==
    call.fn = "isNamespaceMatch" =>
        (call.result <=> WildcardMatch(call.pattern, call.namespace))

\* Segments joined with dots.
RECURSIVE Join(_)
Join(segs) ==
    IF Len(segs) = 1 THEN segs[1]
    ELSE segs[1] \o "." \o Join(Tail(segs))

\* Every segment is a key of the map reached so far; every segment but the
\* last holds a map.
RECURSIVE Walk(_, _)
Walk(m, segs) ==
    /\ segs[1] \in DOMAIN m
    /\ \/ Len(segs) = 1
       \/ /\ m[segs[1]].kind = "map"
          /\ Walk(m[segs[1]].m, Tail(segs))

SegmentSeqs == UNION {[1..n -> {"", "a", "b", "c", "d"}] : n \in 1..4}

\* C29: has(obj, path) is true exactly when obj is a map, path a string, and
\* walking obj along the dot-separated segments of path finds every segment;
\* a two-argument call never returns an error.
C29_HasWalksPath ==
    (call.fn = "has" /\ Len(call.args) = 2) =>
        /\ call.result.err = "nil"
        /\ call.result.val <=>
              /\ call.args[1].kind = "map"
              /\ call.args[2].kind = "string"
              /\ \E segs \in SegmentSeqs :
                    /\ Join(segs) = call.args[2].s
                    /\ Walk(call.args[1].m, segs)

\* has was called with a path of three segments whose first two exist and
\* hold maps and whose last is missing.
C29_Witness ==
    /\ call.fn = "has" /\ Len(call.args) = 2
    /\ call.args[2] = Str("a.b.c")
    /\ call.args[1] = Map([a |-> Map([b |-> EmptyMap])])
    /\ call.result = [val |-> FALSE, err |-> "nil"]

\* C27: when the function returns more than one event, FunctionServer.Execute
\* reports an error, in the FunctionResult or as its return value.
C27_MultipleEventsReported ==
    (/\ call.fn = "FunctionServer.Execute"
     /\ call.impl.err = "nil"
     /\ Len(call.impl.events) > 1)
        => (call.result.Error # "" \/ call.result.ret # "nil")

\* C28: loadPlugin picks the loader by meta.Type alone. builtin resolves the
\* name in-process without a subprocess and fails with not-found for a name
\* that is not compiled in; hashicorp-plugin goes to the plugin manager;
\* any other type fails with the unsupported-type error; a failed load
\* returns no handle.
C28_LoaderByType ==
    call.fn = "loadPlugin" =>
        /\ CASE call.type = "builtin" ->
                  /\ call.result.loader = "builtin"
                  /\ call.result.spawn = 0
                  /\ IF call.name = "example"
                     THEN call.result.res = "ok"
                     ELSE /\ call.result.res = "error"
                          /\ call.result.err =
                                "built-in function " \o call.name \o " not found"
             [] call.type = "hashicorp-plugin" ->
                  call.result.loader = "PluginManager.LoadPlugin"
             [] OTHER ->
                  /\ call.result.res = "error"
                  /\ call.result.loader = "none"
                  /\ call.result.spawn = 0
                  /\ call.result.err = "unsupported plugin type: " \o call.type
        /\ call.result.res = "error" => call.result.plugin = "nil"
        /\ call.result.res = "ok" => call.result.plugin # "nil"

\* loadPlugin was called for an external plugin and the plugin manager
\* started the subprocess.
C28_Witness ==
    /\ call.fn = "loadPlugin"
    /\ call.type = "hashicorp-plugin"
    /\ call.result.loader = "PluginManager.LoadPlugin"
    /\ call.result.spawn = 1

\* C28 as stated: metadata of type external-plugin goes to the subprocess
\* loader.
C28_ExternalPluginType ==
    (call.fn = "loadPlugin" /\ call.type = "external-plugin")
        => call.result.loader = "PluginManager.LoadPlugin"

\* C30: every execution of the example function builds and returns, without
\* error, exactly one event with id "response-" followed by the id of its own
\* input event, source "example-function" and type "com.example.response".
C30_ExampleResponse ==
    \A r \in Requests :
        /\ ex[r].pc = "built" =>
              ex[r].response.ID = "response-" \o ex[r].event.ID
        /\ ex[r].pc = "returned" =>
              /\ ex[r].err = "nil"
              /\ Len(ex[r].events) = 1
              /\ ex[r].events[1].ID = "response-" \o ex[r].event.ID
              /\ ex[r].events[1].Source = "example-function"
              /\ ex[r].events[1].Type = "com.example.response"

\* Two executions on different events are in progress at once, one has
\* returned its response while the other still holds its own.
C30_Witness ==
    \E r1, r2 \in Requests :
        /\ ex[r1].pc = "returned" /\ ex[r2].pc = "built"
        /\ ex[r1].event.ID # ex[r2].event.ID
        /\ ex[r1].events[1].ID # ex[r2].response.ID

\* The positions of the calls on name in the history.
CallsOn(history, name) == {i \in 1..Len(history) : history[i].name = name}
Last(S) == CHOOSE i \in S : \A j \in S : j <= i
\* The names whose latest call is a StoreFunction.
Stored(history) ==
    {n \in MemNames :
        /\ CallsOn(history, n) # {}
        /\ history[Last(CallsOn(history, n))].op = "store"}

\* C31: GetFunction(n) returns the metadata and binary of the latest
\* StoreFunction for n when no DeleteFunction(n) followed it and a not-found
\* error otherwise; ListFunctions returns one metadata per such name and
\* nothing else.
C31_MemoryRegistryLatestStore ==
    /\ mreg.ret.fn = "GetFunction" =>
          LET n == mreg.ret.name IN
          IF n \in Stored(mreg.history)
          THEN LET latest == mreg.history[Last(CallsOn(mreg.history, n))] IN
               /\ mreg.ret.err = "nil"
               /\ mreg.ret.meta = latest.meta
               /\ mreg.ret.binary = latest.binary
          ELSE mreg.ret.err = "function " \o n \o " not found"
    /\ mreg.ret.fn = "ListFunctions" =>
          /\ mreg.ret.err = "nil"
          /\ Len(mreg.ret.functions) = Cardinality(Stored(mreg.history))
          /\ {mreg.ret.functions[i] : i \in 1..Len(mreg.ret.functions)}
                = {mreg.history[Last(CallsOn(mreg.history, n))].meta :
                      n \in Stored(mreg.history)}

\* A name was stored and then deleted, another is still stored, and
\* GetFunction of the deleted name was answered.
C31_Witness ==
    /\ Len(mreg.history) = 3
    /\ mreg.history[1].op = "store" /\ mreg.history[1].name = "f"
    /\ mreg.history[2].op = "store" /\ mreg.history[2].name = "g"
    /\ mreg.history[3].op = "delete" /\ mreg.history[3].name = "f"
    /\ mreg.ret.fn = "GetFunction" /\ mreg.ret.name = "f"
    /\ mreg.ret.err # "nil"

\* C32: the watcher leaves s.mu unlocked after every notification it has
\* processed, so GetTriggers and the next notification can take the lock.
C32_WatcherReleasesLock == st.mu = "free"

\* How often id i is listed under bucket key k, in either map.
Listings(idx, i, k) ==
    Cardinality({n \in 1..Len(idx.exactMatches[k]) : idx.exactMatches[k][n] = i})
    + Cardinality({n \in 1..Len(idx.patternMatches[k]) : idx.patternMatches[k][n] = i})
\* The bucket keys a trigger has to be listed under.
KeysOf(t) ==
    IF Len(t.Namespaces) = 0 THEN {"*"}
    ELSE {t.Namespaces[n] : n \in 1..Len(t.Namespaces)}

\* C33: when the watcher has processed a put of trigger T with id i, the
\* by-id map holds T under i, i is listed under each namespace pattern of T
\* (under `*` if it has none) and under no other bucket, and processing the
\* same notification again changes nothing.
C33_PutReplacesDefinition ==
    [][(/\ updates # <<>>
        /\ updates' = Tail(updates)
        /\ Head(updates).op = "put"
        /\ ~UnmarshalTrigger(Head(updates).value).err)
       => LET T == UnmarshalTrigger(Head(updates).value).trigger IN
          /\ index'.triggers[T.ID] = T
          /\ \A k \in Patterns :
                (Listings(index', T.ID, k) > 0) <=> (k \in KeysOf(T))
          /\ applyUpdate(index', Head(updates)) = index']_vars

\* The watcher has processed the put of a trigger without namespaces whose
\* id an earlier put of the same key defined for `prod`: the id is listed
\* under `*` and no longer under `prod`.
C33_Witness ==
    /\ Len(bucket) >= 2
    /\ bucket[1].op = "put" /\ bucket[1].key = "default.a"
    /\ ~UnmarshalTrigger(bucket[1].value).err
    /\ UnmarshalTrigger(bucket[1].value).trigger.Namespaces = <<"prod">>
    /\ processed = bucket[2]
    /\ processed.op = "put" /\ processed.key = "default.a"
    /\ ~UnmarshalTrigger(processed.value).err
    /\ UnmarshalTrigger(processed.value).trigger.Namespaces = <<>>
    /\ index.triggers["a"] = UnmarshalTrigger(processed.value).trigger
    /\ Listings(index, "a", "*") = 1
    /\ Listings(index, "a", "prod") = 0

\* C33 as stated: the id is listed exactly once under each namespace pattern
\* of T.
C33_ListedOnce ==
    [][(/\ updates # <<>>
        /\ updates' = Tail(updates)
        /\ Head(updates).op = "put"
        /\ ~UnmarshalTrigger(Head(updates).value).err)
       => LET T == UnmarshalTrigger(Head(updates).value).trigger IN
          \A k \in KeysOf(T) : Listings(index', T.ID, k) = 1]_vars

\* C34: an id is listed under a bucket key exactly when the by-id map holds
\* a trigger of that id whose namespaces include the key (or the key is `*`
\* and the trigger has no namespaces).
C34_BucketsAgreeWithTriggers ==
    \A i \in TriggerIDs, k \in Patterns :
        (Listings(index, i, k) > 0)
            <=> (index.triggers[i] # NoTrigger /\ k \in KeysOf(index.triggers[i]))

\* What GetTriggers answers for the namespace, over the orders of its range.
Answers(idx, namespace) ==
    {getTriggers(idx, namespace, o) : o \in KeyOrders(PatternKeys(idx))}

\* C37: a LoadAll that fails leaves the index as it was: GetTriggers and
\* GetAllTriggers answer as before the call.
C37_FailedLoadAllKeepsIndex ==
    [][(/\ st'.loadAll \notin {"none", "nil"}
        /\ <<index, st>>' # <<index, st>>)
       => /\ GetAllTriggers(index') = GetAllTriggers(index)
          /\ \A ns \in LookupNamespaces : Answers(index', ns) = Answers(index, ns)]_vars

\* C40: every pattern of an indexed trigger lists the id in exactMatches if
\* it has no `*` and in patternMatches otherwise, never in both; a trigger
\* without namespaces is listed under patternMatches[`*`] only; no key of
\* exactMatches contains `*` and every key of patternMatches does.
C40_OneBucketPerPattern ==
    /\ \A i \in TriggerIDs :
          LET t == index.triggers[i]
              inExact(k) == \E n \in 1..Len(index.exactMatches[k]) :
                               index.exactMatches[k][n] = i
              inPattern(k) == \E n \in 1..Len(index.patternMatches[k]) :
                                 index.patternMatches[k][n] = i IN
          t # NoTrigger =>
              /\ \A n \in 1..Len(t.Namespaces) :
                    IF Contains(t.Namespaces[n], "*")
                    THEN inPattern(t.Namespaces[n]) /\ ~inExact(t.Namespaces[n])
                    ELSE inExact(t.Namespaces[n]) /\ ~inPattern(t.Namespaces[n])
              /\ Len(t.Namespaces) = 0 =>
                    \A k \in Patterns : ~inExact(k) /\ (inPattern(k) <=> k = "*")
    /\ \A k \in Patterns :
          /\ index.exactMatches[k] # <<>> => ~Contains(k, "*")
          /\ index.patternMatches[k] # <<>> => Contains(k, "*")

\* C35: a successful GetFunction returns a metadata and a binary that were
\* passed together to one StoreFunction call.
C35_StoredPairsStayTogether ==
    \A n \in RegNames :
        NATSGetFunction(n).err = "" =>
            <<NATSGetFunction(n).meta.Version, NATSGetFunction(n).binary>> \in Releases

\* C36: once a name has a cached handle the entry never changes, and a
\* lookup that finds it returns it without a registry or loader call.
C36_CachedHandleReturned ==
    [][\A n \in FunctionNames :
          plugins[n] # 0 =>
              /\ plugins'[n] = plugins[n]
              /\ \A r \in Requests :
                    (/\ pc[r] = "lookup" /\ pc'[r] # "lookup"
                     /\ request[r].FunctionName = n)
                    => /\ plugin'[r] = plugins[n]
                       /\ registryCalls' = registryCalls
                       /\ loaderCalls' = loaderCalls]_vars

\* C38: InvokeFunction returns an error for every reply that carries an
\* errorType, whatever its message, and the reply's events otherwise.
C38_ErrorReplyIsError ==
    call.fn = "InvokeFunction" =>
        IF "errorType" \in DOMAIN call.reply[2]
        THEN call.result.err # "nil"
        ELSE call.result.err = "nil" /\ call.result.events = call.reply[2].events

---------------------------------------------------------------------------
Init ==
    /\ functions = InitialFunctions
    /\ plugins = [n \in FunctionNames |-> 0]
    /\ handles = <<>>
    /\ spawned = [n \in FunctionNames |-> 0]
    /\ registryCalls = [n \in FunctionNames |-> 0]
    /\ loaderCalls = [n \in FunctionNames |-> 0]
    /\ pc = [r \in Requests |-> "idle"]
    /\ request = [r \in Requests |->
                     [ok |-> FALSE, FunctionName |-> "", Event |-> "nil", At |-> ""]]
    /\ plugin = [r \in Requests |-> 0]
    /\ meta = [r \in Requests |-> ""]
    /\ replies = [r \in Requests |-> <<>>]
    /\ metrics = [r \in Requests |-> <<>>]
    /\ crashed = FALSE
    /\ mu = [readers |-> {}, writer |-> 0]
    /\ expired = [r \in Requests |-> FALSE]
    /\ lifecycle = "new"
    /\ dead = {}
    /\ kv = [n \in RegNames |-> NoEntry]
    /\ objectStore = [n \in RegNames |-> NoObject]
    /\ rpc = [c \in Clients |-> "idle"]
    /\ rarg = [c \in Clients |-> NoArgs]
    /\ rret = [c \in Clients |-> ""]
    /\ ops = 0
    /\ bucket = <<>>
    /\ updates = <<>>
    /\ index = newNamespaceIndex
    /\ phase = "new"
    /\ processed = [op |-> "none", key |-> "", value |-> <<>>, last |-> TRUE]
    /\ msg = [delivered |-> FALSE, decoded |-> FALSE, event |-> NoEvent,
              handlerCalls |-> 0, result |-> "none", candidates |-> <<>>,
              matched |-> <<>>, invoked |-> <<>>, acks |-> 0, naks |-> 0]
    /\ dcrashed = FALSE
    /\ storeOps = 0
    /\ lookup = [called |-> FALSE, namespace |-> "", result |-> <<>>]
    /\ mt = [called |-> FALSE, trigger |-> NoTrigger, event |-> NoEvent,
             result |-> "none"]
    /\ call = NoCall
    /\ ex = [r \in Requests |-> NotCalled]
    /\ mreg = [functions |-> [n \in MemNames |-> NoRegistryEntry],
               history |-> <<>>, ret |-> NoRet]
    /\ st = [mu |-> "free", loadAll |-> "none"]
    /\ ld = [r \in Requests |-> NotLoading]

SpecService == Init /\ [][NextService]_vars
SpecRegistry == Init /\ [][NextRegistry]_vars
SpecDispatch == Init /\ [][NextDispatch]_vars
SpecIndex == Init /\ [][NextIndex]_vars
SpecMatch == Init /\ [][NextMatch]_vars
SpecDeadline == Init /\ [][NextDeadline]_vars
SpecLifecycle == Init /\ [][NextLifecycle]_vars
SpecCrash == Init /\ [][NextCrash]_vars
SpecNamespace == Init /\ [][NextNamespace]_vars
SpecHas == Init /\ [][NextHas]_vars
SpecLoad == Init /\ [][NextLoad]_vars
SpecPluginRPC == Init /\ [][NextPluginRPC]_vars
SpecExample == Init /\ [][NextExample]_vars
SpecMemory == Init /\ [][NextMemory]_vars
SpecStore == Init /\ [][NextStore]_vars
SpecReleases == Init /\ [][NextReleases]_vars
SpecClient == Init /\ [][NextClient]_vars
SpecLoadPlugin == Init /\ [][NextLoadPlugin]_vars

=============================================================================
